---- MODULE Spec2Model ----
(***************************************************************************)
(* Verification model of the FunnyPrint print daemon (printerd) and of the *)
(* BLE print driver (funnyprint-proto::print_job).                         *)
(*                                                                         *)
(*   Spec        the daemon: HTTP handlers running in parallel, the        *)
(*               bounded command channel and the single worker task; a     *)
(*               driver session is a call that later returns a result.     *)
(*   LiveSpec    the daemon with a live worker task, weak fairness on the  *)
(*               worker's steps and on the return of a driver session.     *)
(*   DriverSpec  one command carried by the worker through print_job,      *)
(*               the driver being modelled write by write.                 *)
(*   StreamSpec  DriverSpec with weak fairness on the turns of the         *)
(*               streaming loop (the 5 ms poll and the line write).        *)
(*   CallSpec    print_job called directly with unchecked arguments.       *)
(*   ApiSpec     every endpoint, in every configuration of the token and   *)
(*               of the default address.                                   *)
(*   OutageSpec  ApiSpec with a worker task that can end, closing the      *)
(*               channel.                                                  *)
(*   RenderSpec  the two render endpoints with every way a request fails.  *)
(*   LockSpec    the tasks taking and dropping the guards of the RwLocks.  *)
(*   GuardSpec   one turn of worker_loop together with its guards, beside  *)
(*               handlers taking and dropping theirs; the session need not *)
(*               return.                                                   *)
(*   CodecSpec   the pure functions (notification parser, packet builders, *)
(*               CRC, packers, blank trim, font fitter) applied to inputs  *)
(*               from bounded sets.                                        *)
(*   EventSpec   print_event_packet applied to every u16 line count.       *)
(*                                                                         *)
(* Option<T> is modelled by the value None or the value itself; ids made   *)
(* by next_id are the pairs <<prefix, n>> (format!("{prefix}_{n}")).       *)
(* The atomic counters are u64; the model never counts past its bounds.    *)
(***************************************************************************)
EXTENDS Integers, Sequences, FiniteSets, TLC

VARIABLES
    api_token,        \* AppState.api_token
    default_address,  \* AppState.default_address
    renders,          \* AppState.renders : render id -> RenderArtifact
    jobs,             \* AppState.jobs    : job id -> JobRecord
    render_seq,       \* AppState.render_seq
    job_seq,          \* AppState.job_seq
    queue,            \* commands buffered in the mpsc channel
    rx_open,          \* the channel's receiver is alive
    h,                \* request handlers in flight, one record per slot
    w,                \* the worker task: position, command, lookup, result
    active,           \* job ids whose print_job call is in flight
    d,                \* the driver session: locals of print_job
    wire,             \* frames written to the peripheral, in order
    locks,            \* the two RwLocks: guards held, waiters, guard scopes
    calc,             \* a pure function under evaluation: name, argument, result
    issued,           \* history: ids returned by next_id, in issue order
    published         \* history: job ids sent on the channel, in order

daemonVars == <<api_token, default_address, renders, jobs, render_seq, job_seq,
                queue, rx_open, h, w, active, issued, published, locks, calc>>
driverVars == <<d, wire>>
vars == <<api_token, default_address, renders, jobs, render_seq, job_seq,
          queue, rx_open, h, w, active, d, wire, issued, published, locks, calc>>

---------------------------------------------------------------------------
(* Bounds of the model *)

MaxJobs == 3          \* print requests that get as far as a job id
MaxRenders == 1       \* render requests that get as far as a render id
NumHandlers == 2      \* request handlers running at the same time
QueueCap == 2         \* channel capacity used by the model (64 in main)
MaxLines == 2         \* packed lines of a render
MaxLost == 1          \* Lost notifications the printer sends in a session

---------------------------------------------------------------------------
(* Values *)

\* Option<T>: None is the empty tuple, Some(x) the one-element tuple.
None == <<>>
Some(x) == <<x>>
the(opt) == opt[1]
Queued == "Queued"
Printing == "Printing"
Done == "Done"
Failed == "Failed"
Terminal == {Done, Failed}

ADDR_REQ == "AA:BB:CC:DD:EE:FF"
ADDR_RENDER == "11-22-33-44-55-66"
ADDR_DEFAULT == "C0:00:00:00:05:AB"
ADDR_BAD == "printer-1"

OkResult == [ok |-> TRUE, msg |-> None]
Err(m) == [ok |-> FALSE, msg |-> m]

\* No pure function is being evaluated.
NoCall == [fn |-> "", arg |-> None, ret |-> None]

---------------------------------------------------------------------------
(* Helpers of the daemon *)

JobPrefix == "j"
RenderPrefix == "r"

\* next_id: the id is made from the counter value that fetch_add returns,
\* which is the value before the addition.
next_id(prefix, n) == <<prefix, n>>

\* A counter that is read but not advanced.
fetch_add_stale(n) == n

\* AtomicU64::fetch_add(1): the counter value left behind.
fetch_add(n) == n + 1

\* require_auth: no token configured, or the header equals the token
\* (a missing header reads as the empty string).
require_auth(expected, header) ==
    IF expected = None THEN TRUE
    ELSE (IF header = None THEN "" ELSE the(header)) = the(expected)

\* A chain that prefers the daemon's default to the render's override.
resolve_address_default_first(req_address, address_override, dflt) ==
    IF req_address # None THEN req_address
    ELSE IF dflt # None THEN dflt
    ELSE address_override

\* Option::or / or_else chain of queue_print.
resolve_address(req_address, address_override, dflt) ==
    IF req_address # None THEN req_address
    ELSE IF address_override # None THEN address_override
    ELSE dflt

unwrap_or(opt, dflt) == IF opt = None THEN dflt ELSE the(opt)

\* HashMap::insert: adds the key or replaces its value.
insert(map, key, val) ==
    [k \in DOMAIN map \cup {key} |-> IF k = key THEN val ELSE map[k]]

\* A record that is created already Printing.
JobRecord_printing(id, render_id, address, density) ==
    [id |-> id, render_id |-> render_id, address |-> address,
     density |-> density, status |-> Printing, error |-> None]

JobRecord(id, render_id, address, density) ==
    [id |-> id, render_id |-> render_id, address |-> address,
     density |-> density, status |-> Queued, error |-> None]

\* A command that names the render by the job's number.
PrintCommand_renumbered(job_id, render_id, address, density) ==
    [job_id |-> job_id, render_id |-> <<render_id[1], job_id[2] + 1>>,
     address |-> address, density |-> density]

PrintCommand(job_id, render_id, address, density) ==
    [job_id |-> job_id, render_id |-> render_id, address |-> address,
     density |-> density]

RenderArtifact(packed_lines, density, address_override) ==
    [packed_lines |-> packed_lines, density |-> density,
     address_override |-> address_override]

\* mpsc::Sender::try_send: a full channel is an error just as a closed one.
try_send_outcome(buffered, open, cap) ==
    IF ~open \/ Len(buffered) >= cap THEN "closed" ELSE "sent"

\* mpsc::Sender::send on a channel of capacity cap: "closed" (Err) when the
\* receiver is gone, "sent" when a slot is free, otherwise the future stays
\* pending until a slot is free or the receiver goes away.
send_outcome(buffered, open, cap) ==
    IF ~open THEN "closed"
    ELSE IF Len(buffered) < cap THEN "sent"
    ELSE "pending"

IdleHandler == [op |-> "", pc |-> "idle", render_id |-> None, address |-> "",
                density |-> 0, id |-> None, code |-> 0, artifact |-> None,
                job |-> None]

Handlers == 1..NumHandlers

\* A new request is served by the lowest free slot (the slots are alike).
FreeSlot(i) ==
    /\ h[i].pc = "idle"
    /\ \A k \in Handlers : k < i => h[k].pc # "idle"

Reply(i, op, code, id) ==
    h' = [h EXCEPT ![i] = [IdleHandler EXCEPT !.op = op, !.pc = "done",
                                               !.code = code, !.id = id]]

IdleWorker == [pc |-> "recv", cmd |-> None, packed |-> None, result |-> None]

---------------------------------------------------------------------------
(* POST /api/v1/print *)

\* Lines 488-516: authentication, render lookup under the read lock, address
\* resolution and density check; the handler then owns its job parameters.
queue_print_begin(i, req) ==
    /\ FreeSlot(i)
    /\ (job_seq - 1) + Cardinality({k \in Handlers : h[k].pc = "qp_alloc"}) < MaxJobs
    /\ IF ~require_auth(api_token, req.token)
         THEN Reply(i, "queue_print", 401, None)
       ELSE IF req.render_id \notin DOMAIN renders
         THEN Reply(i, "queue_print", 404, None)
       ELSE LET artifact == renders[req.render_id]
                address == resolve_address(req.address, artifact.address_override,
                                           default_address)
                density == unwrap_or(req.density, artifact.density)
            IN  IF address = None
                  THEN Reply(i, "queue_print", 400, None)
                ELSE IF density > 7
                  THEN Reply(i, "queue_print", 400, None)
                ELSE h' = [h EXCEPT ![i] =
                             [IdleHandler EXCEPT !.op = "queue_print",
                                                 !.pc = "qp_alloc",
                                                 !.render_id = req.render_id,
                                                 !.address = the(address),
                                                 !.density = density]]
    /\ UNCHANGED <<calc, locks, api_token, default_address, renders, jobs, render_seq, job_seq,
                   queue, rx_open, w, active, d, wire, issued, published>>

\* Line 518: next_id("j", &state.job_seq).
queue_print_alloc(i) ==
    /\ h[i].pc = "qp_alloc"
    /\ h' = [h EXCEPT ![i].pc = "qp_insert", ![i].id = next_id(JobPrefix, job_seq)]
    /\ job_seq' = fetch_add(job_seq)
    /\ issued' = Append(issued, next_id(JobPrefix, job_seq))
    /\ UNCHANGED <<calc, locks, api_token, default_address, renders, jobs, render_seq,
                   queue, rx_open, w, active, d, wire, published>>

\* Lines 519-527: the Queued record is inserted under the write lock.
queue_print_insert(i) ==
    /\ h[i].pc = "qp_insert"
    /\ jobs' = insert(jobs, h[i].id,
                      JobRecord(h[i].id, h[i].render_id, h[i].address, h[i].density))
    /\ h' = [h EXCEPT ![i].pc = "qp_send"]
    /\ UNCHANGED <<calc, locks, api_token, default_address, renders, render_seq, job_seq,
                   queue, rx_open, w, active, d, wire, issued, published>>

\* A queue_print that takes the record out of the table again when the send
\* fails.
queue_print_send_rollback(i) ==
    /\ h[i].pc = "qp_send"
    /\ LET cmd == PrintCommand(h[i].id, h[i].render_id, h[i].address, h[i].density)
           out == send_outcome(queue, rx_open, QueueCap)
       IN  /\ out # "pending"
           /\ IF out = "closed"
                THEN /\ Reply(i, "queue_print", 503, h[i].id)
                     /\ jobs' = [j \in DOMAIN jobs \ {h[i].id} |-> jobs[j]]
                     /\ UNCHANGED <<queue, published>>
                ELSE /\ queue' = Append(queue, cmd)
                     /\ published' = Append(published, h[i].id)
                     /\ Reply(i, "queue_print", 202, h[i].id)
                     /\ UNCHANGED jobs
    /\ UNCHANGED <<calc, locks, api_token, default_address, renders, render_seq, job_seq,
                   rx_open, w, active, d, wire, issued>>

\* Lines 536-555: queue_tx.send(cmd).await, then 503 or 202.
queue_print_send(i) ==
    /\ h[i].pc = "qp_send"
    /\ LET cmd == PrintCommand(h[i].id, h[i].render_id, h[i].address, h[i].density)
           out == send_outcome(queue, rx_open, QueueCap)
       IN  /\ out # "pending"
           /\ IF out = "closed"
                THEN /\ Reply(i, "queue_print", 503, h[i].id)
                     /\ UNCHANGED <<queue, published>>
                ELSE /\ queue' = Append(queue, cmd)
                     /\ published' = Append(published, h[i].id)
                     /\ Reply(i, "queue_print", 202, h[i].id)
    /\ UNCHANGED <<calc, locks, api_token, default_address, renders, jobs, render_seq, job_seq,
                   rx_open, w, active, d, wire, issued>>

\* The response has been handed to the server; the handler task ends.
respond(i) ==
    /\ h[i].pc = "done"
    /\ h' = [h EXCEPT ![i] = IdleHandler]
    /\ UNCHANGED <<calc, locks, api_token, default_address, renders, jobs, render_seq, job_seq,
                   queue, rx_open, w, active, d, wire, issued, published>>

---------------------------------------------------------------------------
(* POST /api/v1/renders/text and /api/v1/renders/image *)

MAX_DOTS_PER_LINE == 384

\* A handler that takes its render id on entry, before the checks.
render_reject_after_id(i, op, code) ==
    /\ Reply(i, op, code, None)
    /\ render_seq' = fetch_add(render_seq)
    /\ issued' = Append(issued, next_id(RenderPrefix, render_seq))

\* An early return of render_text or render_image (error_response): the
\* counter has not been touched, next_id comes after the last check.
render_reject(i, op, code) ==
    /\ Reply(i, op, code, None)
    /\ UNCHANGED <<render_seq, issued>>

\* The request as the handler sees it: text_blank is req.text.trim().is_empty(),
\* rendered whether render_text_to_image succeeds, packed the result of
\* image_to_packed_lines, png whether encode_png succeeds.
\* Lines 252-314: every check of render_text, then next_id("r", ..).
render_text_begin(i, req) ==
    /\ FreeSlot(i)
    /\ render_seq <= MaxRenders
    /\ LET width_px == unwrap_or(req.width_px, MAX_DOTS_PER_LINE)
           density == unwrap_or(req.density, 3)
       IN  IF ~require_auth(api_token, req.token)
             THEN render_reject(i, "render_text", 401)
           ELSE IF req.text_blank
             THEN render_reject(i, "render_text", 400)
           ELSE IF width_px > MAX_DOTS_PER_LINE
             THEN render_reject(i, "render_text", 400)
           ELSE IF ~req.rendered
             THEN render_reject(i, "render_text", 400)
           ELSE IF req.packed = <<>>
             THEN render_reject(i, "render_text", 400)
           ELSE IF ~req.png
             THEN render_reject(i, "render_text", 500)
           ELSE IF density > 7
             THEN render_reject(i, "render_text", 400)
           ELSE /\ h' = [h EXCEPT ![i] =
                           [IdleHandler EXCEPT
                              !.op = "render_text", !.pc = "r_insert",
                              !.id = next_id(RenderPrefix, render_seq),
                              !.artifact = Some(RenderArtifact(req.packed, density,
                                                               req.address))]]
                /\ render_seq' = fetch_add(render_seq)
                /\ issued' = Append(issued, next_id(RenderPrefix, render_seq))
    /\ UNCHANGED <<calc, locks, api_token, default_address, renders, jobs, job_seq,
                   queue, rx_open, w, active, d, wire, published>>

\* Lines 353-427: every check of render_image, then next_id("r", ..).
\* decoded: the base64 text decodes; loaded: the bytes load as an image.
render_image_begin(i, req) ==
    /\ FreeSlot(i)
    /\ render_seq <= MaxRenders
    /\ LET width_px == unwrap_or(req.width_px, MAX_DOTS_PER_LINE)
           density == unwrap_or(req.density, 3)
       IN  IF ~require_auth(api_token, req.token)
             THEN render_reject(i, "render_image", 401)
           ELSE IF width_px = 0 \/ width_px > MAX_DOTS_PER_LINE
             THEN render_reject(i, "render_image", 400)
           ELSE IF ~req.decoded
             THEN render_reject(i, "render_image", 400)
           ELSE IF ~req.loaded
             THEN render_reject(i, "render_image", 400)
           ELSE IF req.packed = <<>>
             THEN render_reject(i, "render_image", 400)
           ELSE IF ~req.png
             THEN render_reject(i, "render_image", 500)
           ELSE IF density > 7
             THEN render_reject(i, "render_image", 400)
           ELSE /\ h' = [h EXCEPT ![i] =
                           [IdleHandler EXCEPT
                              !.op = "render_image", !.pc = "r_insert",
                              !.id = next_id(RenderPrefix, render_seq),
                              !.artifact = Some(RenderArtifact(req.packed, density,
                                                               req.address))]]
                /\ render_seq' = fetch_add(render_seq)
                /\ issued' = Append(issued, next_id(RenderPrefix, render_seq))
    /\ UNCHANGED <<calc, locks, api_token, default_address, renders, jobs, job_seq,
                   queue, rx_open, w, active, d, wire, published>>

\* Lines 322-345 and 434-458: the artifact is inserted under the write lock
\* and the handler answers 200 with the render id.
render_insert(i) ==
    /\ h[i].pc = "r_insert"
    /\ renders' = insert(renders, h[i].id, the(h[i].artifact))
    /\ Reply(i, h[i].op, 200, h[i].id)
    /\ UNCHANGED <<calc, locks, api_token, default_address, jobs, render_seq, job_seq,
                   queue, rx_open, w, active, d, wire, issued, published>>

---------------------------------------------------------------------------
(* The read-only endpoints: /health, scan, preview, job status, job wait *)

\* A response that carries a job record as its body.
ReplyJob(i, op, code, id, job) ==
    h' = [h EXCEPT ![i] = [IdleHandler EXCEPT !.op = op, !.pc = "done",
                                               !.code = code, !.id = id,
                                               !.job = job]]

\* HashMap::get(..).cloned().
get_cloned(map, key) == IF key \in DOMAIN map THEN Some(map[key]) ELSE None

\* Lines 213-215: no authentication, no state.
health(i) ==
    /\ FreeSlot(i)
    /\ Reply(i, "health", 200, None)
    /\ UNCHANGED <<calc, locks, api_token, default_address, renders, jobs, render_seq, job_seq,
                   queue, rx_open, w, active, d, wire, issued, published>>

\* Lines 222-228: authentication, then the scan is started.
scan_printers_begin(i, req) ==
    /\ FreeSlot(i)
    /\ IF ~require_auth(api_token, req.token)
         THEN Reply(i, "scan_printers", 401, None)
         ELSE h' = [h EXCEPT ![i] = [IdleHandler EXCEPT !.op = "scan_printers",
                                                         !.pc = "scan"]]
    /\ UNCHANGED <<calc, locks, api_token, default_address, renders, jobs, render_seq, job_seq,
                   queue, rx_open, w, active, d, wire, issued, published>>

\* Lines 228-244: discover_candidates returns the list or an error.
scan_printers_end(i, ok) ==
    /\ h[i].pc = "scan"
    /\ Reply(i, "scan_printers", IF ok THEN 200 ELSE 502, None)
    /\ UNCHANGED <<calc, locks, api_token, default_address, renders, jobs, render_seq, job_seq,
                   queue, rx_open, w, active, d, wire, issued, published>>

\* Lines 466-480: authentication, then the lookup under the read lock.
get_preview(i, req) ==
    /\ FreeSlot(i)
    /\ IF ~require_auth(api_token, req.token)
         THEN Reply(i, "get_preview", 401, None)
       ELSE IF get_cloned(renders, req.id) = None
         THEN Reply(i, "get_preview", 404, None)
       ELSE Reply(i, "get_preview", 200, req.id)
    /\ UNCHANGED <<calc, locks, api_token, default_address, renders, jobs, render_seq, job_seq,
                   queue, rx_open, w, active, d, wire, issued, published>>

\* Lines 597-606: authentication, then the lookup under the read lock.
get_job(i, req) ==
    /\ FreeSlot(i)
    /\ IF ~require_auth(api_token, req.token)
         THEN Reply(i, "get_job", 401, None)
       ELSE IF get_cloned(jobs, req.id) = None
         THEN Reply(i, "get_job", 404, None)
       ELSE ReplyJob(i, "get_job", 200, req.id, get_cloned(jobs, req.id))
    /\ UNCHANGED <<calc, locks, api_token, default_address, renders, jobs, render_seq, job_seq,
                   queue, rx_open, w, active, d, wire, issued, published>>

\* Lines 564-569: authentication and the deadline.
wait_job_begin(i, req) ==
    /\ FreeSlot(i)
    /\ IF ~require_auth(api_token, req.token)
         THEN Reply(i, "wait_job", 401, None)
         ELSE h' = [h EXCEPT ![i] = [IdleHandler EXCEPT !.op = "wait_job",
                                                         !.pc = "wj_poll",
                                                         !.id = req.id]]
    /\ UNCHANGED <<calc, locks, api_token, default_address, renders, jobs, render_seq, job_seq,
                   queue, rx_open, w, active, d, wire, issued, published>>

\* A loop that looks at the deadline before it looks at the status.
wait_verdict_deadline_first(maybe_job, expired) ==
    IF maybe_job = None THEN 404
    ELSE IF expired THEN 202
    ELSE IF the(maybe_job).status \in {Done, Failed} THEN 200
    ELSE 0

\* wait_job, lines 574-586: what one turn of the loop does with the record it
\* has read; `expired` is Instant::now() >= deadline at line 584.
wait_verdict(maybe_job, expired) ==
    IF maybe_job = None THEN 404
    ELSE IF the(maybe_job).status \in {Done, Failed} THEN 200
    ELSE IF expired THEN 202
    ELSE 0

\* A wait that gives up on the job when its deadline passes.
wait_job_poll_cancelling(i, expired) ==
    /\ h[i].pc = "wj_poll"
    /\ LET maybe_job == get_cloned(jobs, h[i].id)
           code == wait_verdict(maybe_job, expired)
       IN  /\ IF code = 0 THEN h' = [h EXCEPT ![i].pc = "wj_sleep"]
              ELSE IF code = 404 THEN Reply(i, "wait_job", 404, None)
              ELSE ReplyJob(i, "wait_job", code, h[i].id, maybe_job)
           /\ jobs' = IF code = 202
                        THEN [jobs EXCEPT ![h[i].id].status = Failed,
                                          ![h[i].id].error = Some("wait timed out")]
                        ELSE jobs
    /\ UNCHANGED <<calc, locks, api_token, default_address, renders, render_seq, job_seq,
                   queue, rx_open, w, active, d, wire, issued, published>>

\* Lines 571-588: one turn of the loop: the record is cloned under the read
\* lock, then 404, 200, 202, or a 300 ms sleep and another turn.
wait_job_poll(i, expired) ==
    /\ h[i].pc = "wj_poll"
    /\ LET maybe_job == get_cloned(jobs, h[i].id)
           code == wait_verdict(maybe_job, expired)
       IN  IF code = 0 THEN h' = [h EXCEPT ![i].pc = "wj_sleep"]
           ELSE IF code = 404 THEN Reply(i, "wait_job", 404, None)
           ELSE ReplyJob(i, "wait_job", code, h[i].id, maybe_job)
    /\ UNCHANGED <<calc, locks, api_token, default_address, renders, jobs, render_seq, job_seq,
                   queue, rx_open, w, active, d, wire, issued, published>>

\* Line 588: the sleep is over.
wait_job_wake(i) ==
    /\ h[i].pc = "wj_sleep"
    /\ h' = [h EXCEPT ![i].pc = "wj_poll"]
    /\ UNCHANGED <<calc, locks, api_token, default_address, renders, jobs, render_seq, job_seq,
                   queue, rx_open, w, active, d, wire, issued, published>>

---------------------------------------------------------------------------
(* The worker task *)

\* Locals of print_job on entry (lines 94 and 143-144); see the driver below.
print_job_entry(address, lines, density) ==
    [pc |-> "validate", address |-> address, lines |-> lines, density |-> density,
     cur_line |-> 0, wait_for_event_cnt |-> 0, result |-> None,
     \* what the session has seen so far (history, not read by the driver)
     connected |-> FALSE, acked |-> {}, first_0b |-> None, finished |-> FALSE,
     lost |-> 0, lost_pending |-> None]

DriverIdle == [print_job_entry("", <<>>, 0) EXCEPT !.pc = "idle"]

render_not_found == "render not found"

\* A worker that starts the session and goes back to recv without awaiting it.
call_pc_spawned == "recv"

\* Line 632: the worker awaits print_job; it takes no other command until the
\* call returns.
call_pc == "session"

\* A worker that puts a failed job back to Queued.
result_status_requeue(result) == IF result.ok THEN Done ELSE Queued

\* A worker that records the text "ok" for a success.
result_error_always(result) == Some(IF result.ok THEN "ok" ELSE result.msg)

\* A worker that drops the driver's message.
result_error_dropped(result) == None

\* Lines 638-649: the status and error the worker records for a result.
result_status(result) == IF result.ok THEN Done ELSE Failed
result_error(result) == IF result.ok THEN None ELSE Some(result.msg)

\* A worker that gives up after the first failed session.
after_record_stop(result) == IF result.ok THEN "recv" ELSE "stopped"

\* Line 651: after recording a result the loop goes back to rx.recv().
after_record(result) == "recv"

\* A receiver that hands over the newest buffered command.
recv_index_newest(buffered) == Len(buffered)

\* mpsc::Receiver::recv: the position, in the buffer, of the command handed
\* over next (the channel is first in, first out).
recv_index(buffered) == 1

\* Line 610: rx.recv().await hands over the oldest buffered command.
worker_recv ==
    /\ w.pc = "recv"
    /\ rx_open
    /\ queue # <<>>
    /\ LET k == recv_index(queue)
       IN  /\ w' = [w EXCEPT !.pc = "mark", !.cmd = queue[k]]
           /\ queue' = SubSeq(queue, 1, k - 1) \o SubSeq(queue, k + 1, Len(queue))
    /\ UNCHANGED <<calc, locks, api_token, default_address, renders, jobs, render_seq, job_seq,
                   rx_open, h, active, d, wire, issued, published>>

\* A worker that marks every waiting job of the command's render.
worker_mark_render ==
    /\ w.pc = "mark"
    /\ jobs' = [j \in DOMAIN jobs |->
                  IF jobs[j].render_id = w.cmd.render_id /\ jobs[j].status = Queued
                    THEN [jobs[j] EXCEPT !.status = Printing, !.error = None]
                    ELSE jobs[j]]
    /\ w' = [w EXCEPT !.pc = "lookup"]
    /\ UNCHANGED <<calc, locks, api_token, default_address, renders, render_seq, job_seq,
                   queue, rx_open, h, active, d, wire, issued, published>>

\* Lines 618-624: under the write lock the job, if present, becomes Printing.
worker_mark ==
    /\ w.pc = "mark"
    /\ jobs' = IF w.cmd.job_id \in DOMAIN jobs
                 THEN [jobs EXCEPT ![w.cmd.job_id].status = Printing,
                                   ![w.cmd.job_id].error = None]
                 ELSE jobs
    /\ w' = [w EXCEPT !.pc = "lookup"]
    /\ UNCHANGED <<calc, locks, api_token, default_address, renders, render_seq, job_seq,
                   queue, rx_open, h, active, d, wire, issued, published>>

\* Lines 626-634: the render's lines are cloned under the read lock; with
\* lines the worker calls print_job, without it has the error at once.
worker_lookup ==
    /\ w.pc = "lookup"
    /\ IF w.cmd.render_id \in DOMAIN renders
         THEN LET lines == renders[w.cmd.render_id].packed_lines
              IN  /\ w' = [w EXCEPT !.pc = call_pc, !.packed = Some(lines)]
                  /\ active' = active \cup {w.cmd.job_id}
                  /\ d' = print_job_entry(w.cmd.address, lines, w.cmd.density)
                  /\ UNCHANGED wire
         ELSE /\ w' = [w EXCEPT !.pc = "record",
                                !.result = Some(Err(render_not_found))]
              /\ UNCHANGED <<active, d, wire>>
    /\ UNCHANGED <<calc, locks, api_token, default_address, renders, jobs, render_seq, job_seq,
                   queue, rx_open, h, issued, published>>

\* The awaited print_job call has returned `result` to the worker.
worker_resume(result) ==
    /\ w' = [w EXCEPT !.pc = "record", !.result = Some(result)]
    /\ active' = active \ {w.cmd.job_id}

\* print_job seen from the daemon: a call in flight that returns a result.
print_job_returns(result) ==
    /\ w.pc = "session"
    /\ d.pc = "validate"
    /\ d' = DriverIdle
    /\ worker_resume(result)
    /\ UNCHANGED <<calc, locks, api_token, default_address, renders, jobs, render_seq, job_seq,
                   queue, rx_open, h, wire, issued, published>>

\* A worker that runs a failed command again.
next_turn_retry(cur, result) ==
    IF result.ok THEN IdleWorker
    ELSE [cur EXCEPT !.pc = "mark", !.result = None, !.packed = None]

\* Line 651: the loop body ends, its locals are dropped; the worker does not
\* keep the command.
next_turn(cur, result) == [IdleWorker EXCEPT !.pc = after_record(result)]

\* Lines 636-651: under the write lock the job, if present, gets its final
\* status; the loop then continues.
worker_record ==
    /\ w.pc = "record"
    /\ LET result == the(w.result)
       IN  /\ jobs' = IF w.cmd.job_id \in DOMAIN jobs
                        THEN [jobs EXCEPT
                                ![w.cmd.job_id].status = result_status(result),
                                ![w.cmd.job_id].error = result_error(result)]
                        ELSE jobs
           /\ w' = next_turn(w, result)
    /\ UNCHANGED <<calc, locks, api_token, default_address, renders, render_seq, job_seq,
                   queue, rx_open, h, active, d, wire, issued, published>>

\* The worker task ends without returning to recv (a panic below a driver
\* call, or the runtime being torn down): the receiver it owns is dropped,
\* which closes the channel and discards the buffered commands.
receiver_dropped ==
    /\ rx_open
    /\ rx_open' = FALSE
    /\ queue' = <<>>
    /\ active' = {}
    /\ w' = [w EXCEPT !.pc = "dropped"]
    /\ UNCHANGED <<calc, locks, api_token, default_address, renders, jobs, render_seq, job_seq,
                   h, d, wire, issued, published>>

---------------------------------------------------------------------------
(* The two tokio RwLocks, AppState.renders and AppState.jobs *)

WorkerTask == 0
Tasks == Handlers \cup {WorkerTask}

Acquire(lock, mode) == <<"acquire", lock, mode>>
Release(lock) == <<"release", lock>>

\* A queue_print that keeps the render guard while it inserts the job.
guard_scopes_nested(op) ==
    CASE op = "queue_print" ->
           <<Acquire("renders", "read"), Acquire("jobs", "write"),
             Release("jobs"), Release("renders")>>
      [] op = "worker_loop" ->
           <<Acquire("jobs", "write"), Release("jobs"),
             Acquire("renders", "read"), Release("renders"),
             Acquire("jobs", "write"), Release("jobs")>>
      [] OTHER -> <<Acquire("jobs", "read"), Release("jobs")>>

\* The guards a task takes and drops, in program order: render insert
\* (322-326, 434-438), preview (470-480), queue_print (492 and 527),
\* wait_job's one turn (572), get_job (601-606), and one turn of worker_loop
\* (619-624, 627-629, 636-651).  No await lies between an acquire and its
\* release.
guard_scopes(op) ==
    CASE op = "render_insert" -> <<Acquire("renders", "write"), Release("renders")>>
      [] op = "get_preview" -> <<Acquire("renders", "read"), Release("renders")>>
      [] op = "queue_print" ->
           <<Acquire("renders", "read"), Release("renders"),
             Acquire("jobs", "write"), Release("jobs")>>
      [] op = "wait_job" -> <<Acquire("jobs", "read"), Release("jobs")>>
      [] op = "get_job" -> <<Acquire("jobs", "read"), Release("jobs")>>
      [] op = "worker_loop" ->
           <<Acquire("jobs", "write"), Release("jobs"),
             Acquire("renders", "read"), Release("renders"),
             Acquire("jobs", "write"), Release("jobs")>>

LockingOps == {"render_insert", "get_preview", "queue_print", "wait_job", "get_job"}

\* held: the guards each task holds, as <<lock, mode>>; waiting: the tasks
\* queued on a lock, oldest first, as <<task, lock, mode>>; todo: what is left
\* of the task's guard scopes.
NoLocks == [held |-> [t \in Tasks |-> {}], waiting |-> <<>>,
            todo |-> [t \in Tasks |-> <<>>]]

\* RwLock: a read guard is given while no write guard is out, a write guard
\* while no guard is out.
available(lock, mode) ==
    IF mode = "read"
      THEN \A t \in Tasks : <<lock, "write">> \notin locks.held[t]
      ELSE \A t \in Tasks : \A g \in locks.held[t] : g[1] # lock

WaitersOn(lock) == SelectSeq(locks.waiting, LAMBDA x : x[2] = lock)
IsWaiting(t) == \E k \in 1..Len(locks.waiting) : locks.waiting[k][1] = t

NoAppStep ==
    UNCHANGED <<calc, api_token, default_address, renders, jobs, render_seq, job_seq,
                queue, rx_open, h, w, active, d, wire, issued, published>>

\* A handler starts serving a request, or the worker a command.
lock_task_begin(t, op) ==
    /\ locks.todo[t] = <<>>
    /\ IF t = WorkerTask THEN op = "worker_loop" ELSE op \in LockingOps
    /\ locks' = [locks EXCEPT !.todo[t] = guard_scopes(op)]
    /\ NoAppStep

\* .read().await / .write().await: the guard at once if nobody waits for the
\* lock and it is available, else the task joins the lock's queue (tokio's
\* RwLock is fair: first come, first served).
lock_acquire(t) ==
    /\ locks.todo[t] # <<>>
    /\ Head(locks.todo[t])[1] = "acquire"
    /\ ~IsWaiting(t)
    /\ LET lock == Head(locks.todo[t])[2]
           mode == Head(locks.todo[t])[3]
       IN  IF WaitersOn(lock) = <<>> /\ available(lock, mode)
             THEN locks' = [locks EXCEPT !.held[t] = @ \cup {<<lock, mode>>},
                                         !.todo[t] = Tail(@)]
             ELSE locks' = [locks EXCEPT !.waiting = Append(@, <<t, lock, mode>>)]
    /\ NoAppStep

\* The oldest waiter of a lock gets its guard once the lock is available.
lock_grant(t) ==
    /\ IsWaiting(t)
    /\ LET lock == Head(locks.todo[t])[2]
           mode == Head(locks.todo[t])[3]
       IN  /\ Head(WaitersOn(lock))[1] = t
           /\ available(lock, mode)
           /\ locks' = [locks EXCEPT
                          !.held[t] = @ \cup {<<lock, mode>>},
                          !.waiting = SelectSeq(@, LAMBDA x : x[1] # t),
                          !.todo[t] = Tail(@)]
    /\ NoAppStep

\* The guard goes out of scope.
lock_release(t) ==
    /\ locks.todo[t] # <<>>
    /\ Head(locks.todo[t])[1] = "release"
    /\ LET lock == Head(locks.todo[t])[2]
       IN  locks' = [locks EXCEPT !.held[t] = {g \in @ : g[1] # lock},
                                   !.todo[t] = Tail(@)]
    /\ NoAppStep

---------------------------------------------------------------------------
(* funnyprint-proto: addresses and the wire codec *)

\* The characters of the address strings the model uses.
Chars(a) ==
    CASE a = ADDR_REQ -> <<"A","A",":","B","B",":","C","C",":","D","D",":","E","E",":","F","F">>
      [] a = ADDR_RENDER -> <<"1","1","-","2","2","-","3","3","-","4","4","-","5","5","-","6","6">>
      [] a = ADDR_DEFAULT -> <<"C","0",":","0","0",":","0","0",":","0","0",":","0","5",":","A","B">>
      [] a = ADDR_BAD -> <<"p","r","i","n","t","e","r","-","1">>
      [] a = "aabbccddeeff" -> <<"a","a","b","b","c","c","d","d","e","e","f","f">>
      [] a = "AA:BB:CC:DD:EE" -> <<"A","A",":","B","B",":","C","C",":","D","D",":","E","E">>
      [] a = "AA:BB:CC:DD:EE:FG" ->
           <<"A","A",":","B","B",":","C","C",":","D","D",":","E","E",":","F","G">>
      [] a = "+A:BB:CC:DD:EE:FF" ->
           <<"+","A",":","B","B",":","C","C",":","D","D",":","E","E",":","F","F">>
      [] a = "A+:BB:CC:DD:EE:FF" ->
           <<"A","+",":","B","B",":","C","C",":","D","D",":","E","E",":","F","F">>
      [] OTHER -> <<>>

\* Addresses of the peripherals in radio range, as btleplug prints them.
Peripherals ==
    {<<"A","A",":","B","B",":","C","C",":","D","D",":","E","E",":","F","F">>,
     <<"1","1",":","2","2",":","3","3",":","4","4",":","5","5",":","6","6">>,
     <<"C","0",":","0","0",":","0","0",":","0","0",":","0","5",":","A","B">>}

\* A replace that stops after the first match (replacen(ch, "", 1)).
strip_first(cs, ch) ==
    IF \A k \in 1..Len(cs) : cs[k] # ch THEN cs
    ELSE LET f == CHOOSE k \in 1..Len(cs) :
                    cs[k] = ch /\ \A j \in 1..(k - 1) : cs[j] # ch
         IN  SubSeq(cs, 1, f - 1) \o SubSeq(cs, f + 1, Len(cs))

\* str::replace(ch, ""): the characters other than ch, in order.
strip(cs, ch) == SelectSeq(cs, LAMBDA c : c # ch)

to_ascii_uppercase(c) ==
    CASE c = "a" -> "A" [] c = "b" -> "B" [] c = "c" -> "C" [] c = "d" -> "D"
      [] c = "e" -> "E" [] c = "f" -> "F" [] c = "p" -> "P" [] c = "r" -> "R"
      [] c = "i" -> "I" [] c = "n" -> "N" [] c = "t" -> "T" [] OTHER -> c

\* find_peripheral_by_address, line 225: '-' becomes ':', then upper case.
normalize(cs) ==
    [k \in 1..Len(cs) |-> IF cs[k] = "-" THEN ":" ELSE to_ascii_uppercase(cs[k])]

HexDigits == <<"0","1","2","3","4","5","6","7","8","9","A","B","C","D","E","F">>

\* The value of a hex digit, -1 for any other character.
hex_value(c) ==
    LET u == to_ascii_uppercase(c)
    IN  IF \E k \in 1..16 : HexDigits[k] = u
          THEN (CHOOSE k \in 1..16 : HexDigits[k] = u) - 1
          ELSE -1

RECURSIVE xor(_, _)
\* Bitwise exclusive or of two naturals.
xor(a, b) ==
    IF a = 0 THEN b
    ELSE IF b = 0 THEN a
    ELSE (((a % 2) + (b % 2)) % 2) + 2 * xor(a \div 2, b \div 2)

\* The loop with the polynomial of CRC-16/ARC, 0x8005.
crc_bit_8005(crc, bit) ==
    LET c15 == (crc \div 32768) % 2
        shifted == (crc * 2) % 65536
    IN  IF c15 # bit THEN xor(shifted, 32773) ELSE shifted

\* One bit of the CRC loop, lines 440-445, in u16 arithmetic.
crc_bit(crc, bit) ==
    LET c15 == (crc \div 32768) % 2
        shifted == (crc * 2) % 65536
    IN  IF c15 # bit THEN xor(shifted, 4129) ELSE shifted

RECURSIVE crc_byte(_, _, _)
\* The inner loop over bit_idx in 0..8; the crc of each turn is a u16 value
\* before the next turn starts.
crc_byte(crc, byte, bit_idx) ==
    IF bit_idx = 8 THEN crc
    ELSE LET next == crc_bit(crc, (byte \div (2 ^ (7 - bit_idx))) % 2)
         IN  IF next \in 0..65535 THEN crc_byte(next, byte, bit_idx + 1) ELSE next

RECURSIVE crc_from(_, _, _)
\* The outer loop over the bytes data[k..], starting from crc.
crc_from(crc, data, k) ==
    IF k > Len(data) THEN crc
    ELSE LET next == crc_byte(crc, data[k], 0)
         IN  IF next \in 0..65535 THEN crc_from(next, data, k + 1) ELSE next

crc16_xmodem(data) == crc_from(0, data, 1)

\* u8::from_str_radix(two characters, 16): the value, or -1 for an error.
\* A leading '+' is a sign, and the digits follow it.
from_str_radix_16(hi, lo) ==
    IF hi = "+" THEN hex_value(lo)
    ELSE IF hex_value(hi) < 0 \/ hex_value(lo) < 0 THEN -1
    ELSE 16 * hex_value(hi) + hex_value(lo)

\* handshake_0b_packet: Err unless the address is 12 characters once ':' and
\* '-' are removed and each pair of them parses as a byte; else 5A 0B and ten
\* copies of the CRC's high byte.
handshake_0b_packet(bdaddr) ==
    LET mac_hex == strip(strip(Chars(bdaddr), ":"), "-")
    IN  IF Len(mac_hex) # 12 THEN Err("failed to build handshake 0b")
        ELSE IF \E k \in 1..6 : from_str_radix_16(mac_hex[2 * k - 1], mac_hex[2 * k]) < 0
          THEN Err("failed to build handshake 0b")
        ELSE LET mac == [k \in 1..6 |->
                           from_str_radix_16(mac_hex[2 * k - 1], mac_hex[2 * k])]
                 response == (crc16_xmodem(<<0>> \o mac) \div 256) % 256
             IN  [ok |-> TRUE, msg |-> None,
                  packet |-> <<90, 11>> \o [k \in 1..10 |-> response]]

\* A parser that reads the Lost line number low byte first and takes every
\* other notification for noise.
parse_notify_le(note) ==
    IF Len(note) >= 4 /\ note[1] = 90 /\ note[2] = 5
      THEN [tag |-> "Lost", line_no |-> note[4] * 256 + note[3]]
      ELSE [tag |-> "Other"]

\* parse_notify: the event of a notification's bytes (0-based byte k of the
\* source is note[k + 1]).
parse_notify(note) ==
    LET get(k) == IF Len(note) > k THEN note[k + 1] ELSE 0
    IN  IF Len(note) < 2 THEN [tag |-> "Other"]
        ELSE IF note[1] = 90 /\ note[2] = 10 THEN [tag |-> "Handshake0a"]
        ELSE IF note[1] = 90 /\ note[2] = 11
          THEN [tag |-> "Handshake0b", ok |-> (Len(note) > 2 /\ note[3] = 1)]
        ELSE IF note[1] = 90 /\ note[2] = 5
          THEN [tag |-> "Lost",
                line_no |-> IF Len(note) >= 4 THEN note[3] * 256 + note[4] ELSE 0]
        ELSE IF note[1] = 90 /\ note[2] = 6 THEN [tag |-> "Finished"]
        ELSE IF note[1] = 90 /\ note[2] = 8 THEN [tag |-> "Paused"]
        ELSE IF note[1] = 90 /\ note[2] = 2
          THEN [tag |-> "Status", battery |-> get(2), no_paper |-> get(3) # 0,
                overheat |-> get(5) # 0]
        ELSE [tag |-> "Other"]

U16_MAX == 65535
PACKED_LINE_BYTES == 96

\* u16::to_be_bytes.
to_be_bytes(n) == <<n \div 256, n % 256>>

\* The end flag written high byte first, like the line count before it.
to_le_bytes_swapped(n) == <<n \div 256, n % 256>>

\* u16::to_le_bytes.
to_le_bytes(n) == <<n % 256, n \div 256>>

\* print_event_packet: 5A 04, num_lines big-endian, the end flag as a
\* little-endian u16.
print_event_packet(num_lines, end) ==
    <<90, 4>> \o to_be_bytes(num_lines) \o to_le_bytes(IF end THEN 1 ELSE 0)

\* A line frame without its closing byte.
print_line_packet_open(line_no, line_data) ==
    <<85>> \o to_be_bytes(line_no) \o line_data

\* print_line_packet: 55, line_no big-endian, the PackedLine, 00.
print_line_packet(line_no, line_data) ==
    <<85>> \o to_be_bytes(line_no) \o line_data \o <<0>>

\* u16::saturating_sub(1).
saturating_sub_1(n) == IF n = 0 THEN 0 ELSE n - 1

---------------------------------------------------------------------------
(* funnyprint-render and printerd: packing an image into PackedLines *)

BYTES_PER_LINE == 48

\* GrayImage::get_pixel(x, y).0[0], x and y counted from 0.  An image is its
\* width, its height, the set of its dark pixels and their value; every other
\* pixel is white (255).
get_pixel(img, x, y) == IF <<x, y>> \in img.dark THEN img.value ELSE 255

\* A packer that fills each byte from its low bit upwards.
packed_line_lsb(img, y, ink) ==
    LET width == IF img.width < MAX_DOTS_PER_LINE THEN img.width ELSE MAX_DOTS_PER_LINE
        dot(x, yy) == IF yy < img.height /\ x < width /\ get_pixel(img, x, yy) \in ink
                        THEN 1 ELSE 0
    IN  [b \in 1..(2 * BYTES_PER_LINE) |->
           LET row == (b - 1) \div BYTES_PER_LINE
               x0 == 8 * ((b - 1) % BYTES_PER_LINE)
               yy == y + row
           IN  dot(x0, yy) + 2 * dot(x0 + 1, yy) + 4 * dot(x0 + 2, yy)
               + 8 * dot(x0 + 3, yy) + 16 * dot(x0 + 4, yy) + 32 * dot(x0 + 5, yy)
               + 64 * dot(x0 + 6, yy) + 128 * dot(x0 + 7, yy)]

\* A packer that writes the upper pixel row into the second half of the line.
packed_line_rows_swapped(img, y, ink) ==
    LET width == IF img.width < MAX_DOTS_PER_LINE THEN img.width ELSE MAX_DOTS_PER_LINE
        dot(x, yy) == IF yy < img.height /\ x < width /\ get_pixel(img, x, yy) \in ink
                        THEN 1 ELSE 0
    IN  [b \in 1..(2 * BYTES_PER_LINE) |->
           LET row == 1 - ((b - 1) \div BYTES_PER_LINE)
               x0 == 8 * ((b - 1) % BYTES_PER_LINE)
               yy == y + row
           IN  128 * dot(x0, yy) + 64 * dot(x0 + 1, yy) + 32 * dot(x0 + 2, yy)
               + 16 * dot(x0 + 3, yy) + 8 * dot(x0 + 4, yy) + 4 * dot(x0 + 5, yy)
               + 2 * dot(x0 + 6, yy) + dot(x0 + 7, yy)]

\* The body of the loop over y (render 77-95, printerd 733-748): the line of
\* the pixel rows y and y + 1.  A row at or below the image's height is
\* skipped; pixel x of a row sets bit 7 - x % 8 of byte row * 48 + x / 8 when
\* its value is ink.  Each bit is set at most once, so the byte is the sum
\* of its bits.
packed_line(img, y, ink) ==
    LET width == IF img.width < MAX_DOTS_PER_LINE THEN img.width ELSE MAX_DOTS_PER_LINE
        dot(x, yy) == IF yy < img.height /\ x < width /\ get_pixel(img, x, yy) \in ink
                        THEN 1 ELSE 0
    IN  [b \in 1..(2 * BYTES_PER_LINE) |->
           LET row == (b - 1) \div BYTES_PER_LINE
               x0 == 8 * ((b - 1) % BYTES_PER_LINE)
               yy == y + row
           IN  128 * dot(x0, yy) + 64 * dot(x0 + 1, yy) + 32 * dot(x0 + 2, yy)
               + 16 * dot(x0 + 3, yy) + 8 * dot(x0 + 4, yy) + 4 * dot(x0 + 5, yy)
               + 2 * dot(x0 + 6, yy) + dot(x0 + 7, yy)]

\* for y in (0..height).step_by(2): one line for y = 0, 2, ..
pack_lines(img, ink) ==
    [k \in 1..((img.height + 1) \div 2) |-> packed_line(img, 2 * (k - 1), ink)]

\* A trim that drops every blank line.
trim_every_blank(out) ==
    SelectSeq(out, LAMBDA l : \E b \in 1..Len(l) : l[b] # 0)

\* Render 102-108, printerd 753-758: position and rposition of a line with a
\* non-zero byte; out[start..=end], or nothing when there is none.
trim_blank_lines(out) ==
    LET inked == {k \in 1..Len(out) : \E b \in 1..Len(out[k]) : out[k][b] # 0}
    IN  IF inked = {} THEN <<>>
        ELSE SubSeq(out, CHOOSE k \in inked : \A j \in inked : k <= j,
                         CHOOSE k \in inked : \A j \in inked : k >= j)

\* funnyprint-render: a pixel is ink when it is not above the threshold.
image_to_packed_lines(img, threshold, trim_blank) ==
    LET out == pack_lines(img, 0..threshold)
    IN  IF ~trim_blank THEN out ELSE trim_blank_lines(out)

\* printerd: a pixel of the black-and-white preview is ink when it is 0.
pack_bw_image(img, trim_blank) ==
    LET out == pack_lines(img, {0})
    IN  IF ~trim_blank THEN out ELSE trim_blank_lines(out)

---------------------------------------------------------------------------
(* telegram-bot: fit_font_size *)

\* Font sizes are f32 values between 8.0 and 128.0, written as whole numbers
\* of 2^-21 px: every f32 in that range, and the exact half of the sum of
\* two of them, is such a number.
px(n) == n * 2097152

\* The f32 nearest to v (ties to the even mantissa): between 2^k and 2^(k+1)
\* px the f32 values are 2^(k-23) px apart.
round_f32(v) ==
    LET ulp == IF v < px(16) THEN 2 ELSE IF v < px(32) THEN 4
               ELSE IF v < px(64) THEN 8 ELSE 16
        below == v - (v % ulp)
    IN  IF 2 * (v % ulp) < ulp THEN below
        ELSE IF 2 * (v % ulp) > ulp THEN below + ulp
        ELSE IF (below \div ulp) % 2 = 0 THEN below
        ELSE below + ulp

\* A comparison turned round.
fits_inverted(size, widest) == size > widest

\* w <= max_width, for a text whose measured width is non-decreasing in the
\* size: it holds up to some widest size and for no size above it.
fits(size, widest) == size <= widest

RECURSIVE fit_loop(_, _, _, _)
\* Lines 963-971: the turns i..23 of the loop, mid = (lo + hi) / 2.0 in f32.
fit_loop(lo, hi, widest, i) ==
    IF i = 24 THEN lo
    ELSE LET mid == round_f32((lo + hi) \div 2)
         IN  IF fits(mid, widest) THEN fit_loop(mid, hi, widest, i + 1)
             ELSE fit_loop(lo, mid, widest, i + 1)

\* fit_font_size: the size it returns (the block height is left out), or
\* one of its two errors.
fit_font_size(min_size, max_size, widest) ==
    IF min_size <= 0 \/ max_size <= 0 \/ min_size > max_size
      THEN Err("invalid font size bounds")
    ELSE IF ~fits(min_size, widest)
      THEN Err("text is too wide even at minimum font size")
    ELSE [ok |-> TRUE, msg |-> None, size |-> fit_loop(min_size, max_size, widest, 0)]

---------------------------------------------------------------------------
(* funnyprint-proto: print_job, one step per await *)

IdleLimit == 50

\* Frames on the wire, by the packet builder that made them: n and x are
\* its arguments (event: num_lines and the end flag as 0 or 1; line: the
\* line number and the PackedLine; density: the density).
Frame(builder, n, x) == [frame |-> builder, n |-> n, x |-> x]
hardware_info == Frame("hardware_info", 0, 0)
handshake_0a == Frame("handshake_0a", 0, 0)
handshake_0b(response) == Frame("handshake_0b", 0, response)
density_frame(density) == Frame("density", density, 0)
print_event(num_lines, end) == Frame("print_event", num_lines, IF end THEN 1 ELSE 0)
print_line(line_no, line_data) == Frame("print_line", line_no, line_data)

\* print_job returns `result`: its locals stay readable as the session's end.
drv_return_with(result) ==
    d' = [d EXCEPT !.pc = "returned", !.result = Some(result)]

\* A write whose failure sends the driver to the disconnect before returning.
drv_written_cleanup(ok, frame, next_pc) ==
    IF ok THEN /\ wire' = Append(wire, frame)
               /\ d' = [d EXCEPT !.pc = next_pc]
    ELSE /\ d' = [d EXCEPT !.pc = "disconnect"]
         /\ UNCHANGED wire

\* write(): the frame is on the wire and the driver goes on, or the write
\* fails and `?` returns the error.
drv_written(ok, frame, next_pc) ==
    IF ok THEN /\ wire' = Append(wire, frame)
               /\ d' = [d EXCEPT !.pc = next_pc]
    ELSE /\ drv_return_with(Err("BLE write failed"))
         /\ UNCHANGED wire

\* A driver that writes handshake-B without waiting for Handshake0A.
after_write_no_wait(pc) ==
    CASE pc = "write_hardware_info" -> "write_handshake_0a"
      [] pc = "write_handshake_0a" -> "write_handshake_0b"
      [] pc = "write_handshake_0b" -> "wait_handshake_0b"
      [] pc = "write_density" -> "write_event_begin"
      [] pc = "write_event_begin" -> "poll"
      [] pc = "write_event_end" -> "disconnect"

\* The order of the straight-line writes of lines 124-141 and 192-197.
after_write(pc) ==
    CASE pc = "write_hardware_info" -> "write_handshake_0a"
      [] pc = "write_handshake_0a" -> "wait_handshake_0a"
      [] pc = "write_handshake_0b" -> "wait_handshake_0b"
      [] pc = "write_density" -> "write_event_begin"
      [] pc = "write_event_begin" -> "poll"
      [] pc = "write_event_end" -> "disconnect"

\* wait_for_handshake_0a, lines 355-358: what one received notification
\* means to the wait loop.
handshake_0a_verdict(note) ==
    IF parse_notify(note).tag = "Handshake0a" THEN "ok" ELSE "ignored"

\* A wait that takes any Handshake0B for a confirmation.
handshake_0b_verdict_lenient(note) ==
    IF parse_notify(note).tag = "Handshake0b" THEN "ok" ELSE "ignored"

\* wait_for_handshake_0b_ok, lines 370-376.
handshake_0b_verdict(note) ==
    LET ev == parse_notify(note)
    IN  IF ev.tag = "Handshake0b"
          THEN (IF ev.ok THEN "ok" ELSE "rejected")
          ELSE "ignored"

\* A cursor set to the reported line number itself.
lost_cursor_same(line_no) == line_no

\* Line 151: the cursor a Lost{line_no} leaves.
lost_cursor(line_no) == saturating_sub_1(line_no)

\* A driver that goes to the radio without looking at its arguments.
drv_validate_skipped ==
    /\ d.pc = "validate"
    /\ d' = [d EXCEPT !.pc = "find"]
    /\ UNCHANGED <<daemonVars, wire>>

\* Lines 95-100.
drv_validate ==
    /\ d.pc = "validate"
    /\ IF d.density > 7
         THEN drv_return_with(Err("density must be in range 0..=7"))
       ELSE IF d.lines = <<>>
         THEN drv_return_with(Err("nothing to print: no packed lines provided"))
       ELSE d' = [d EXCEPT !.pc = "find"]
    /\ UNCHANGED <<daemonVars, wire>>

\* Lines 102-107: adapter, scan for the address, connect.  The scan can find
\* the peripheral only if the normalized address is one in range.
drv_find(outcome) ==
    /\ d.pc = "find"
    /\ outcome = "ok" => normalize(Chars(d.address)) \in Peripherals
    /\ IF outcome = "ok"
         THEN d' = [d EXCEPT !.pc = "setup", !.connected = TRUE]
         ELSE drv_return_with(Err(outcome))
    /\ UNCHANGED <<daemonVars, wire>>

\* Lines 108-122: services, characteristics, subscription, stream.
drv_setup(outcome) ==
    /\ d.pc = "setup"
    /\ IF outcome = "ok"
         THEN d' = [d EXCEPT !.pc = "write_hardware_info"]
         ELSE drv_return_with(Err(outcome))
    /\ UNCHANGED daemonVars
    /\ UNCHANGED wire

\* Lines 124-125, 135-141 and 192-197: the writes outside the loop.
drv_write(ok) ==
    /\ d.pc \in {"write_hardware_info", "write_handshake_0a", "write_density",
                 "write_event_begin", "write_event_end"}
    /\ LET frame == CASE d.pc = "write_hardware_info" -> hardware_info
                      [] d.pc = "write_handshake_0a" -> handshake_0a
                      [] d.pc = "write_density" -> density_frame(d.density)
                      [] d.pc = "write_event_begin" -> print_event(Len(d.lines), FALSE)
                      [] d.pc = "write_event_end" -> print_event(Len(d.lines), TRUE)
       IN  drv_written(ok, frame, after_write(d.pc))
    /\ UNCHANGED daemonVars

\* Lines 127-132: handshake-B is built from the address, then written.
drv_write_handshake_0b(ok) ==
    /\ d.pc = "write_handshake_0b"
    /\ LET built == handshake_0b_packet(d.address)
       IN  IF built.ok
             THEN drv_written(ok, handshake_0b(built.packet[3]), after_write(d.pc))
             ELSE drv_return_with(built) /\ UNCHANGED wire
    /\ UNCHANGED daemonVars

\* Lines 354-360: one turn of the wait for Handshake0A; `got` is the
\* notification the 500 ms poll returned, None if it returned none.
drv_wait_handshake_0a(got) ==
    /\ d.pc = "wait_handshake_0a"
    /\ LET seen == IF got # None /\ parse_notify(the(got)).tag = "Handshake0a"
                     THEN [d EXCEPT !.acked = d.acked \cup {"Handshake0a"}]
                     ELSE d
       IN  IF got # None /\ handshake_0a_verdict(the(got)) = "ok"
             THEN d' = [seen EXCEPT !.pc = "write_handshake_0b"]
             ELSE d' = d
    /\ UNCHANGED <<daemonVars, wire>>

\* Lines 354 and 361: the 5 s deadline has passed.
drv_timeout_handshake_0a ==
    /\ d.pc = "wait_handshake_0a"
    /\ drv_return_with(Err("timeout waiting for handshake 0x5a0a response"))
    /\ UNCHANGED <<daemonVars, wire>>

\* Lines 369-378: one turn of the wait for Handshake0B.
drv_wait_handshake_0b(got) ==
    /\ d.pc = "wait_handshake_0b"
    /\ LET verdict == IF got = None THEN "ignored" ELSE handshake_0b_verdict(the(got))
           ev == IF got = None THEN [tag |-> "Other"] ELSE parse_notify(the(got))
           seen == IF ev.tag = "Handshake0b" /\ d.first_0b = None
                     THEN [d EXCEPT !.first_0b = Some(ev.ok),
                                    !.acked = IF ev.ok THEN d.acked \cup {"Handshake0b"}
                                              ELSE d.acked]
                     ELSE d
       IN  IF verdict = "ok"
             THEN d' = [seen EXCEPT !.pc = "write_density"]
           ELSE IF verdict = "rejected"
             THEN d' = [seen EXCEPT
                          !.pc = "returned",
                          !.result = Some(Err("printer rejected handshake 0x5a0b response"))]
           ELSE d' = seen
    /\ UNCHANGED <<daemonVars, wire>>

\* Lines 369 and 379.
drv_timeout_handshake_0b ==
    /\ d.pc = "wait_handshake_0b"
    /\ drv_return_with(Err("timeout waiting for handshake 0x5a0b confirmation"))
    /\ UNCHANGED <<daemonVars, wire>>

\* A loop that takes Finished for one more notification to skip.
after_poll_ignoring(tag) == "line"

\* Lines 148-169: Finished breaks out of the loop, every other event (and no
\* event) falls through to the line write.
after_poll(tag) == IF tag = "Finished" THEN "write_event_end" ELSE "line"

\* Lines 147-170: the 5 ms poll at the top of the streaming loop.
drv_poll(got) ==
    /\ d.pc = "poll"
    /\ LET ev == IF got = None THEN [tag |-> "Other"] ELSE parse_notify(the(got))
       IN  /\ ev.tag = "Lost" => d.lost < MaxLost
           /\ IF ev.tag = "Lost"
                THEN d' = [d EXCEPT !.pc = "line", !.wait_for_event_cnt = 0,
                                    !.cur_line = lost_cursor(ev.line_no),
                                    !.lost = d.lost + 1,
                                    !.lost_pending = Some(ev.line_no)]
              ELSE d' = [d EXCEPT !.pc = after_poll(ev.tag),
                                  !.finished = (ev.tag = "Finished")]
    /\ UNCHANGED <<daemonVars, wire>>

\* An idle check that never gives up waiting.
idle_check_forever(s) == [s EXCEPT !.pc = "poll"]

\* An idle check that allows one wait more.
idle_check_late(s) ==
    IF s.cur_line >= Len(s.lines)
      THEN IF s.wait_for_event_cnt > IdleLimit + 1
             THEN [s EXCEPT !.pc = "write_event_end"]
             ELSE [s EXCEPT !.pc = "poll",
                            !.wait_for_event_cnt = s.wait_for_event_cnt + 1]
      ELSE [s EXCEPT !.pc = "poll"]

\* Lines 183-189: after the last line, count the idle turns; past the limit
\* the loop ends.
idle_check(s) ==
    IF s.cur_line >= Len(s.lines)
      THEN IF s.wait_for_event_cnt > IdleLimit
             THEN [s EXCEPT !.pc = "write_event_end"]
             ELSE [s EXCEPT !.pc = "poll",
                            !.wait_for_event_cnt = s.wait_for_event_cnt + 1]
      ELSE [s EXCEPT !.pc = "poll"]

\* Lines 172-189: write the line under the cursor if there is one, advance,
\* then the idle check.
drv_line(ok) ==
    /\ d.pc = "line"
    /\ IF d.cur_line < Len(d.lines)
         THEN IF ok
                THEN /\ wire' = Append(wire, print_line(d.cur_line,
                                                        d.lines[d.cur_line + 1]))
                     /\ d' = idle_check([d EXCEPT !.cur_line = d.cur_line + 1,
                                                   !.lost_pending = None])
                ELSE /\ drv_return_with(Err("BLE write failed"))
                     /\ UNCHANGED wire
         ELSE /\ d' = idle_check([d EXCEPT !.lost_pending = None])
              /\ UNCHANGED wire
    /\ UNCHANGED daemonVars

\* Lines 199-203.
drv_disconnect(ok) ==
    /\ d.pc = "disconnect"
    /\ IF ok THEN drv_return_with(OkResult)
       ELSE drv_return_with(Err("failed to disconnect cleanly"))
    /\ UNCHANGED <<daemonVars, wire>>

\* Line 632: the awaited call returns its result to the worker.
drv_return ==
    /\ d.pc = "returned"
    /\ w.pc = "session"
    /\ worker_resume(the(d.result))
    /\ UNCHANGED <<calc, locks, api_token, default_address, renders, jobs, render_seq, job_seq,
                   queue, rx_open, h, d, wire, issued, published>>

---------------------------------------------------------------------------
(* The daemon: Spec and LiveSpec *)

EmptyMap == [k \in {} |-> None]

TOKEN == "secret"

Init ==
    /\ api_token = Some(TOKEN)
    /\ default_address = None
    /\ renders = EmptyMap
    /\ jobs = EmptyMap
    /\ render_seq = 1
    /\ job_seq = 1
    /\ queue = <<>>
    /\ rx_open = TRUE
    /\ h = [i \in Handlers |-> IdleHandler]
    /\ w = IdleWorker
    /\ active = {}
    /\ d = DriverIdle
    /\ wire = <<>>
    /\ issued = <<>>
    /\ published = <<>>
    /\ locks = NoLocks
    /\ calc = NoCall

\* Requests the clients send.
RenderIds == {next_id(RenderPrefix, n) : n \in 1..MaxRenders}
Headers == {None, Some(TOKEN)}
PackedChoices(max) == {[k \in 1..n |-> k] : n \in 0..max}

PrintRequests ==
    [token : Headers, render_id : RenderIds,
     address : {None, Some(ADDR_REQ)}, density : {None, Some(8)}]

RenderTextRequests ==
    [token : Headers, text_blank : BOOLEAN, width_px : {None, Some(385)},
     rendered : BOOLEAN, packed : PackedChoices(1), png : BOOLEAN,
     density : {None, Some(8)}, address : {None, Some(ADDR_RENDER)}]

RenderImageRequests ==
    [token : Headers, width_px : {None, Some(0), Some(385)},
     decoded : BOOLEAN, loaded : BOOLEAN, packed : PackedChoices(1), png : BOOLEAN,
     density : {None, Some(8)}, address : {None, Some(ADDR_RENDER)}]

\* Results a driver session hands back to the worker.
SessionResults == {OkResult, Err("BLE write failed")}

HandlerNext ==
    \E i \in Handlers :
        \/ \E req \in PrintRequests : queue_print_begin(i, req)
        \/ queue_print_alloc(i)
        \/ queue_print_insert(i)
        \/ queue_print_send(i)
        \/ \E req \in RenderTextRequests : render_text_begin(i, req)
        \/ \E req \in RenderImageRequests : render_image_begin(i, req)
        \/ render_insert(i)
        \/ respond(i)

WorkerNext ==
    \/ worker_recv
    \/ worker_mark
    \/ worker_lookup
    \/ \E result \in SessionResults : print_job_returns(result)
    \/ worker_record

Running == HandlerNext \/ WorkerNext

Next == Running \/ receiver_dropped

Spec == Init /\ [][Next]_vars

LiveSpec == Init /\ [][Running]_vars /\ WF_vars(WorkerNext)

---------------------------------------------------------------------------
(* RenderSpec: the two render endpoints alone, with every way a request can
   fail *)

RenderNext ==
    \E i \in Handlers :
        \/ \E req \in RenderTextRequests : render_text_begin(i, req)
        \/ \E req \in RenderImageRequests : render_image_begin(i, req)
        \/ render_insert(i)
        \/ respond(i)

RenderSpec == Init /\ [][RenderNext]_vars

---------------------------------------------------------------------------
(* CodecSpec: the pure functions, each applied to one argument drawn from a
   bounded set *)

MaxNoteLen == 6       \* bytes of a notification

\* Notifications: nothing, a lone byte, or a lead byte, a tag byte and a
\* payload of a few byte values.
NoteChoices ==
    {<<>>} \cup {<<a>> : a \in {85, 90}}
    \cup {<<a, b>> \o p : a \in {85, 90}, b \in {1, 2, 5, 6, 8, 10, 11},
                          p \in UNION {[1..n -> {0, 1, 85, 255}] : n \in 0..(MaxNoteLen - 2)}}

Call(fn, arg) == [fn |-> fn, arg |-> arg, ret |-> None]

\* PackedLines: blank, full, one that differs in every byte, and one with
\* ink in its first and last byte only.
PackedLineChoices ==
    {[k \in 1..PACKED_LINE_BYTES |-> 0], [k \in 1..PACKED_LINE_BYTES |-> 255],
     [k \in 1..PACKED_LINE_BYTES |-> k],
     [k \in 1..PACKED_LINE_BYTES |-> IF k \in {1, PACKED_LINE_BYTES} THEN 85 ELSE 0]}

MaxCrcLen == 3        \* bytes of the strings whose CRC is taken

\* "123456789", the string of the crate's own test, and every short string
\* over a few byte values.
CrcChoices ==
    {<<49, 50, 51, 52, 53, 54, 55, 56, 57>>, <<0, 192, 0, 0, 0, 5, 171>>}
    \cup UNION {[1..n -> {0, 1, 128, 255}] : n \in 0..MaxCrcLen}

MaxHeight == 3        \* pixel rows of an image
MaxDark == 2          \* dark pixels of an image
MaxTrimLen == 4       \* lines of a sequence that is trimmed

\* Images 1, 9 and 384 pixels wide: up to MaxDark dark pixels, black or grey,
\* in the columns where a byte or the line begins or ends.
ImageChoices ==
    UNION {{[width |-> wd, height |-> ht, dark |-> dk, value |-> v] :
              v \in {0, 128},
              dk \in {s \in SUBSET {<<x, y>> : x \in {0, 7, 8, 383}, y \in 0..MaxHeight} :
                       /\ Cardinality(s) <= MaxDark
                       /\ \A p \in s : p[1] < wd /\ p[2] < ht}} :
           wd \in {1, 9, MAX_DOTS_PER_LINE}, ht \in 0..MaxHeight}

\* Sequences of blank and inked lines.
TrimChoices ==
    UNION {[1..n -> {[k \in 1..PACKED_LINE_BYTES |-> 0],
                     [k \in 1..PACKED_LINE_BYTES |-> IF k = 1 THEN 128 ELSE 0],
                     [k \in 1..PACKED_LINE_BYTES |-> IF k = 96 THEN 1 ELSE 0]}] :
           n \in 0..MaxTrimLen}

MaxSpread == 12       \* distance of a widest fitting size from an anchor, in 2^-21 px

\* Size bounds, and for each the sizes up to which the text fits: around the
\* bounds, around 16, 32 and 64 px where the f32 spacing changes, around a
\* third of the range, and one below the minimum.
FitChoices ==
    UNION {{<<b[1], b[2], a + j>> :
              a \in {b[1], b[2], px(16), px(32), px(64), b[1] + ((b[2] - b[1]) \div 3)},
              j \in (0 - MaxSpread)..MaxSpread} :
           b \in {<<px(8), px(64)>>, <<px(16), px(72)>>, <<px(63), px(65)>>,
                   <<px(12), px(12)>>, <<px(64), px(8)>>, <<0, px(64)>>}}

AddressChoices ==
    {ADDR_REQ, ADDR_RENDER, ADDR_DEFAULT, ADDR_BAD, "aabbccddeeff", "AA:BB:CC:DD:EE",
     "AA:BB:CC:DD:EE:FG", "+A:BB:CC:DD:EE:FF", "A+:BB:CC:DD:EE:FF"}

\* The function named by the call, applied to its argument.
apply(fn, arg) ==
    CASE fn = "parse_notify" -> parse_notify(arg)
      [] fn = "print_event_packet" -> print_event_packet(arg[1], arg[2])
      [] fn = "print_line_packet" -> print_line_packet(arg[1], arg[2])
      [] fn = "handshake_0b_packet" -> handshake_0b_packet(arg)
      [] fn = "crc16_xmodem" -> crc16_xmodem(arg)
      [] fn = "image_to_packed_lines" -> image_to_packed_lines(arg[1], arg[2], arg[3])
      [] fn = "pack_bw_image" -> pack_bw_image(arg[1], arg[2])
      [] fn = "trim_blank_lines" -> trim_blank_lines(arg)
      [] fn = "fit_font_size" -> fit_font_size(arg[1], arg[2], arg[3])

\* The daemon is not running: only `calc` is in use.
CodecIdle ==
    /\ api_token = None
    /\ default_address = None
    /\ renders = EmptyMap
    /\ jobs = EmptyMap
    /\ render_seq = 1
    /\ job_seq = 1
    /\ queue = <<>>
    /\ rx_open = TRUE
    /\ h = [i \in Handlers |-> IdleHandler]
    /\ w = IdleWorker
    /\ active = {}
    /\ d = DriverIdle
    /\ wire = <<>>
    /\ issued = <<>>
    /\ published = <<>>
    /\ locks = NoLocks

CodecInit ==
    /\ CodecIdle
    /\ calc \in
          {Call("parse_notify", note) : note \in NoteChoices}
          \cup {Call("print_line_packet", <<n, line>>) :
                  n \in {0, 1, 255, 256, 300, U16_MAX}, line \in PackedLineChoices}
          \cup {Call("handshake_0b_packet", a) : a \in AddressChoices}
          \cup {Call("crc16_xmodem", data) : data \in CrcChoices}
          \cup {Call("image_to_packed_lines", <<img, threshold, trim_blank>>) :
                  img \in ImageChoices, threshold \in {127, 180, 255}, trim_blank \in BOOLEAN}
          \cup {Call("pack_bw_image", <<img, trim_blank>>) :
                  img \in ImageChoices, trim_blank \in BOOLEAN}
          \cup {Call("trim_blank_lines", out) : out \in TrimChoices}
          \cup {Call("fit_font_size", f) : f \in FitChoices}

\* print_event_packet on every u16 line count, with end false and true.
EventInit ==
    /\ CodecIdle
    /\ calc \in {Call("print_event_packet", <<n, end>>) : n \in 0..U16_MAX, end \in BOOLEAN}

\* The call returns.
call_return ==
    /\ calc.ret = None
    /\ calc' = [calc EXCEPT !.ret = Some(apply(calc.fn, calc.arg))]
    /\ UNCHANGED <<locks, api_token, default_address, renders, jobs, render_seq,
                   job_seq, queue, rx_open, h, w, active, d, wire, issued, published>>

CodecNext == call_return

CodecSpec == CodecInit /\ [][CodecNext]_vars

EventSpec == EventInit /\ [][CodecNext]_vars

---------------------------------------------------------------------------
(* ApiSpec: every endpoint, in every configuration of token and default
   address, around the life of one job *)

MaxApiJobs == 1

ApiInit ==
    /\ api_token \in {None, Some(""), Some(TOKEN)}
    /\ default_address \in {None, Some(ADDR_DEFAULT)}
    /\ renders = EmptyMap
    /\ jobs = EmptyMap
    /\ render_seq = 1
    /\ job_seq = 1
    /\ queue = <<>>
    /\ rx_open = TRUE
    /\ h = [i \in Handlers |-> IdleHandler]
    /\ w = IdleWorker
    /\ active = {}
    /\ d = DriverIdle
    /\ wire = <<>>
    /\ issued = <<>>
    /\ published = <<>>
    /\ locks = NoLocks
    /\ calc = NoCall

JobIds == {next_id(JobPrefix, n) : n \in 1..MaxApiJobs}
BadHeaders == {None, Some("guess")}
ApiHeaders == {Some(TOKEN)} \cup BadHeaders

ApiPrintRequests ==
    [token : ApiHeaders, render_id : RenderIds,
     address : {None, Some(ADDR_REQ)}, density : {None}]
ApiRenderTextRequests ==
    [token : ApiHeaders, text_blank : {FALSE}, width_px : {None},
     rendered : {TRUE}, packed : {<<1>>}, png : {TRUE},
     density : {None}, address : {None, Some(ADDR_RENDER)}]
ApiRenderImageRequests ==
    [token : ApiHeaders, width_px : {None}, decoded : {TRUE}, loaded : {TRUE},
     packed : {<<1>>}, png : {TRUE}, density : {None}, address : {None}]
ScanRequests == [token : ApiHeaders]
PreviewRequests == [token : ApiHeaders, id : RenderIds]
JobRequests == [token : ApiHeaders, id : JobIds]

\* Requests for a new job are explored while fewer than MaxApiJobs ids are
\* taken or about to be taken.
JobsBelow(limit) ==
    (job_seq - 1) + Cardinality({k \in Handlers : h[k].pc = "qp_alloc"}) < limit

ApiHandlerNext ==
    \E i \in Handlers :
        \/ health(i)
        \/ \E req \in ScanRequests : scan_printers_begin(i, req)
        \/ \E ok \in BOOLEAN : scan_printers_end(i, ok)
        \/ \E req \in ApiRenderTextRequests : render_text_begin(i, req)
        \/ \E req \in ApiRenderImageRequests : render_image_begin(i, req)
        \/ render_insert(i)
        \/ \E req \in PreviewRequests : get_preview(i, req)
        \/ \E req \in ApiPrintRequests : JobsBelow(MaxApiJobs) /\ queue_print_begin(i, req)
        \/ queue_print_alloc(i)
        \/ queue_print_insert(i)
        \/ queue_print_send(i)
        \/ \E req \in JobRequests : get_job(i, req)
        \/ \E req \in JobRequests : wait_job_begin(i, req)
        \/ \E expired \in BOOLEAN : wait_job_poll(i, expired)
        \/ wait_job_wake(i)
        \/ respond(i)

ApiNext == ApiHandlerNext \/ WorkerNext

ApiSpec == ApiInit /\ [][ApiNext]_vars

\* ApiSpec with a worker task that can end, which closes the channel.
OutageSpec == ApiInit /\ [][ApiNext \/ receiver_dropped]_vars

---------------------------------------------------------------------------
(* LockSpec: handlers and the worker taking and dropping their guards; every
   task that can run does run *)

LockInit ==
    /\ api_token = None
    /\ default_address = None
    /\ renders = EmptyMap
    /\ jobs = EmptyMap
    /\ render_seq = 1
    /\ job_seq = 1
    /\ queue = <<>>
    /\ rx_open = TRUE
    /\ h = [i \in Handlers |-> IdleHandler]
    /\ w = IdleWorker
    /\ active = {}
    /\ d = DriverIdle
    /\ wire = <<>>
    /\ issued = <<>>
    /\ published = <<>>
    /\ locks = NoLocks
    /\ calc = NoCall

LockStep(t) == lock_acquire(t) \/ lock_grant(t) \/ lock_release(t)

LockNext ==
    \E t \in Tasks :
        \/ \E op \in LockingOps \cup {"worker_loop"} : lock_task_begin(t, op)
        \/ lock_acquire(t)
        \/ lock_grant(t)
        \/ lock_release(t)

LockSpec == LockInit /\ [][LockNext]_vars /\ \A t \in Tasks : WF_vars(LockStep(t))

---------------------------------------------------------------------------
(* DriverSpec: one accepted job, the driver step by step *)

\* What the environment (radio, peripheral) can answer.
FindOutcomes == {"ok", "no BLE adapter found", "BLE device not found",
                 "failed to connect"}
SetupOutcomes == {"ok", "failed to discover services",
                  "write characteristic not found",
                  "failed to subscribe to notify characteristic"}
LostNotes == {<<90, 5, 0, lo>> : lo \in {0, 1, 2, 3, 7}} \cup {<<90, 5, 255, 255>>}
Notes == {<<90, 10>>, <<90, 11, 1>>, <<90, 11, 0>>, <<90, 11>>, <<90, 6>>, <<90, 8>>,
          <<90, 2, 85, 1, 0, 1>>, <<90, 5>>, <<90>>, <<>>, <<7, 7>>} \cup LostNotes
Polled == {None} \cup {Some(note) : note \in Notes}

\* The daemon after one render (r_1) and one print request (j_1) were
\* accepted: the command waits in the channel.
DriverInit ==
    \E lines \in PackedChoices(MaxLines) \ {<<>>},
       address \in {ADDR_REQ, ADDR_RENDER, ADDR_BAD},
       density \in {0, 7} :
        LET r1 == next_id(RenderPrefix, 1)
            j1 == next_id(JobPrefix, 1)
        IN  /\ api_token = None
            /\ default_address = None
            /\ renders = insert(EmptyMap, r1, RenderArtifact(lines, 3, None))
            /\ jobs = insert(EmptyMap, j1, JobRecord(j1, r1, address, density))
            /\ render_seq = 2
            /\ job_seq = 2
            /\ queue = <<PrintCommand(j1, r1, address, density)>>
            /\ rx_open = TRUE
            /\ h = [i \in Handlers |-> IdleHandler]
            /\ w = IdleWorker
            /\ active = {}
            /\ d = DriverIdle
            /\ wire = <<>>
            /\ issued = <<r1, j1>>
            /\ published = <<j1>>
            /\ locks = NoLocks
            /\ calc = NoCall

DriverNext ==
    \/ worker_recv
    \/ worker_mark
    \/ worker_lookup
    \/ drv_validate
    \/ \E outcome \in FindOutcomes : drv_find(outcome)
    \/ \E outcome \in SetupOutcomes : drv_setup(outcome)
    \/ \E ok \in BOOLEAN : drv_write(ok)
    \/ \E ok \in BOOLEAN : drv_write_handshake_0b(ok)
    \/ \E got \in Polled : drv_wait_handshake_0a(got)
    \/ drv_timeout_handshake_0a
    \/ \E got \in Polled : drv_wait_handshake_0b(got)
    \/ drv_timeout_handshake_0b
    \/ \E got \in Polled : drv_poll(got)
    \/ \E ok \in BOOLEAN : drv_line(ok)
    \/ \E ok \in BOOLEAN : drv_disconnect(ok)
    \/ drv_return
    \/ worker_record

DriverSpec == DriverInit /\ [][DriverNext]_vars

\* The streaming loop is straight-line code in one future: the poll returns
\* after 5 ms at the latest and the write and the sleeps return, so a turn
\* that can be taken is taken.
StreamSpec ==
    /\ DriverInit
    /\ [][DriverNext]_vars
    /\ WF_vars(\E got \in Polled : drv_poll(got))
    /\ WF_vars(\E ok \in BOOLEAN : drv_line(ok))

---------------------------------------------------------------------------
(* CallSpec: print_job called directly, as funnyprint-cli does, with
   arguments nobody has checked *)

Densities == {0, 7, 8, 255}

CallInit ==
    /\ api_token = None
    /\ default_address = None
    /\ renders = EmptyMap
    /\ jobs = EmptyMap
    /\ render_seq = 1
    /\ job_seq = 1
    /\ queue = <<>>
    /\ rx_open = TRUE
    /\ h = [i \in Handlers |-> IdleHandler]
    /\ w = IdleWorker
    /\ active = {}
    /\ \E address \in {ADDR_REQ, ADDR_BAD}, lines \in PackedChoices(MaxLines),
          density \in Densities :
          d = print_job_entry(address, lines, density)
    /\ wire = <<>>
    /\ issued = <<>>
    /\ published = <<>>
    /\ locks = NoLocks
    /\ calc = NoCall

CallNext ==
    \/ drv_validate
    \/ \E outcome \in FindOutcomes : drv_find(outcome)
    \/ \E outcome \in SetupOutcomes : drv_setup(outcome)
    \/ \E ok \in BOOLEAN : drv_write(ok)
    \/ \E ok \in BOOLEAN : drv_write_handshake_0b(ok)
    \/ \E got \in Polled : drv_wait_handshake_0a(got)
    \/ drv_timeout_handshake_0a
    \/ \E got \in Polled : drv_wait_handshake_0b(got)
    \/ drv_timeout_handshake_0b
    \/ \E got \in Polled : drv_poll(got)
    \/ \E ok \in BOOLEAN : drv_line(ok)
    \/ \E ok \in BOOLEAN : drv_disconnect(ok)

CallSpec == CallInit /\ [][CallNext]_vars

---------------------------------------------------------------------------
(* GuardSpec: one turn of worker_loop with its guards, beside handlers
   taking and dropping theirs *)

Holds(t, lock, mode) == <<lock, mode>> \in locks.held[t]

\* The worker's guard scopes still to come: 6 before the first write guard,
\* 4 before the read guard, 2 before the last write guard.
ScopesLeft == Len(locks.todo[WorkerTask])

\* A worker that calls print_job inside the block of the read guard.
worker_call_in_scope ==
    /\ w.pc = "call"
    /\ Holds(WorkerTask, "renders", "read")
    /\ w' = [w EXCEPT !.pc = call_pc]
    /\ active' = active \cup {w.cmd.job_id}
    /\ d' = print_job_entry(w.cmd.address, the(w.packed), w.cmd.density)
    /\ UNCHANGED <<calc, locks, api_token, default_address, renders, jobs, render_seq,
                   job_seq, queue, rx_open, h, wire, issued, published>>

\* Lines 626-629: the block of the read guard; the lines are cloned, or
\* there is no such render.
worker_clone ==
    /\ w.pc = "lookup"
    /\ Holds(WorkerTask, "renders", "read")
    /\ w' = [w EXCEPT !.pc = "call",
                      !.packed = IF w.cmd.render_id \in DOMAIN renders
                                   THEN Some(renders[w.cmd.render_id].packed_lines)
                                   ELSE None]
    /\ UNCHANGED <<calc, locks, api_token, default_address, renders, jobs, render_seq,
                   job_seq, queue, rx_open, h, active, d, wire, issued, published>>

\* Lines 631-634: after the block, print_job is called with the cloned lines
\* (or the error is made when there were none).
worker_call ==
    /\ w.pc = "call"
    /\ locks.held[WorkerTask] = {}
    /\ ScopesLeft = 2
    /\ IF w.packed # None
         THEN /\ w' = [w EXCEPT !.pc = call_pc]
              /\ active' = active \cup {w.cmd.job_id}
              /\ d' = print_job_entry(w.cmd.address, the(w.packed), w.cmd.density)
         ELSE /\ w' = [w EXCEPT !.pc = "record",
                                !.result = Some(Err(render_not_found))]
              /\ UNCHANGED <<active, d>>
    /\ UNCHANGED <<calc, locks, api_token, default_address, renders, jobs, render_seq,
                   job_seq, queue, rx_open, h, wire, issued, published>>

\* The worker's steps on the locks, each at its place in the loop body: the
\* write guard of 619 once a command is received, its drop once the job is
\* marked, the read guard of 627, its drop once the lines are cloned, the
\* write guard of 636 once print_job has returned, its drop at the end of
\* the body.
worker_guard ==
    \/ /\ w.pc = "mark"
       /\ lock_task_begin(WorkerTask, "worker_loop")
    \/ /\ \/ ScopesLeft = 6 /\ w.pc = "mark"
          \/ ScopesLeft = 4 /\ w.pc = "lookup"
          \/ ScopesLeft = 2 /\ w.pc = "record"
       /\ lock_acquire(WorkerTask)
    \/ lock_grant(WorkerTask)
    \/ /\ \/ ScopesLeft = 5 /\ w.pc = "lookup"
          \/ ScopesLeft = 3 /\ w.pc # "lookup"
          \/ ScopesLeft = 1 /\ w.pc = "recv"
       /\ lock_release(WorkerTask)

WorkerGuarded ==
    \/ worker_recv /\ ScopesLeft = 0
    \/ worker_guard
    \/ worker_mark /\ Holds(WorkerTask, "jobs", "write") /\ ScopesLeft = 5
    \/ worker_clone
    \/ worker_call
    \/ worker_record /\ Holds(WorkerTask, "jobs", "write") /\ ScopesLeft = 1

HandlerGuards ==
    \E t \in Handlers :
        \/ \E op \in LockingOps : lock_task_begin(t, op)
        \/ lock_acquire(t)
        \/ lock_grant(t)
        \/ lock_release(t)

GuardNext ==
    \/ WorkerGuarded
    \/ \E result \in SessionResults : print_job_returns(result)
    \/ HandlerGuards

\* Every task that can take a step does, except that a driver session need
\* not ever return.
GuardSpec ==
    /\ DriverInit
    /\ [][GuardNext]_vars
    /\ WF_vars(WorkerGuarded)
    /\ \A t \in Handlers : WF_vars(LockStep(t))

---------------------------------------------------------------------------
(* Properties of the daemon (Spec, LiveSpec) *)

LegalStep(old, new) ==
    \/ new = old
    \/ old = Queued /\ new = Printing
    \/ old = Printing /\ new \in Terminal

\* C1: a job record is created Queued, and from then on its status only moves
\* Queued -> Printing -> Done or Failed: no step goes back, no step leaves a
\* terminal status, and no record disappears.
C1_StatusMonotone ==
    [][/\ \A j \in DOMAIN jobs :
             /\ j \in DOMAIN jobs'
             /\ LegalStep(jobs[j].status, jobs'[j].status)
       /\ \A j \in DOMAIN jobs' \ DOMAIN jobs : jobs'[j].status = Queued]_vars

C1_Witness ==
    /\ \E j \in DOMAIN jobs : jobs[j].status = Done
    /\ \E j \in DOMAIN jobs : jobs[j].status = Failed

\* C2: at most one driver session is in flight at any time, however many
\* commands are waiting in the channel.
C2_OneSession == Cardinality(active) <= 1

C2_Witness == Cardinality(active) = 1 /\ Len(queue) = QueueCap

\* C3: jobs are printed in the order their commands were published: when a
\* job has left Queued, every job published before it is Done or Failed.
C3_PublishOrder ==
    \A a, b \in 1..Len(published) :
        (a < b /\ jobs[published[b]].status # Queued)
            => jobs[published[a]].status \in Terminal

C3_Witness ==
    /\ Len(published) >= 2
    /\ jobs[published[1]].status = Failed
    /\ jobs[published[2]].status = Printing

IsPublished(j) == \E k \in 1..Len(published) : published[k] = j

\* C4: every job whose command was published reaches Done or Failed (given
\* that every driver session returns), and recording a result touches only
\* the job of the command: Done and no error for a success, Failed and the
\* error's message otherwise, after which the worker is back at recv.
C4_EveryJobSettles ==
    /\ \A n \in 1..MaxJobs :
          IsPublished(next_id(JobPrefix, n))
              ~> (/\ next_id(JobPrefix, n) \in DOMAIN jobs
                  /\ jobs[next_id(JobPrefix, n)].status \in Terminal)
    /\ [][(w.pc = "record" /\ w'.pc # "record") =>
            LET j == w.cmd.job_id
                result == the(w.result)
            IN  /\ jobs'[j].status = (IF result.ok THEN Done ELSE Failed)
                /\ jobs'[j].error = (IF result.ok THEN None ELSE Some(result.msg))
                /\ \A k \in DOMAIN jobs \ {j} : jobs'[k] = jobs[k]
                /\ w'.pc = "recv"]_vars

C4_Witness ==
    /\ Len(published) >= 2
    /\ jobs[published[1]].status = Failed
    /\ jobs[published[2]].status = Done

ChannelFull == rx_open /\ Len(queue) >= QueueCap

\* C6 as stated: a handler that reaches the send with the channel full or
\* closed answers 503 there and then, without waiting for room.
C6_FullOrClosedIs503 ==
    \A i \in Handlers :
        (h[i].pc = "qp_send" /\ (ChannelFull \/ ~rx_open))
            => ENABLED (queue_print_send(i) /\ h'[i].code = 503)

\* C6: queue_print answers 503 only when the channel is closed. While the
\* channel is full and open the handler stays at the send: it answers nothing
\* and publishes nothing until the worker has taken a command; with room it
\* publishes its command and answers 202.
C6_ClosedIs503FullWaits ==
    [][\A i \in Handlers :
          (h[i].pc = "qp_send" /\ h'[i] # h[i]) =>
             /\ ~ChannelFull
             /\ h'[i].pc = "done"
             /\ IF rx_open
                  THEN /\ h'[i].code = 202
                       /\ queue' = Append(queue, PrintCommand(h[i].id, h[i].render_id,
                                                              h[i].address, h[i].density))
                       /\ published' = Append(published, h[i].id)
                  ELSE /\ h'[i].code = 503
                       /\ UNCHANGED <<queue, published>>]_vars

C6_Witness ==
    /\ ChannelFull
    /\ \E i \in Handlers : h[i].pc = "qp_send"

---------------------------------------------------------------------------
(* Properties of a driver session (DriverSpec) *)

Max0(n) == IF n < 0 THEN 0 ELSE n

\* C7: a Lost{n} received in the streaming loop leaves the cursor at
\* max(0, n-1) and the idle counter at 0, whatever n is; the write that
\* follows, if the cursor is inside the lines, is the line frame of the line
\* under that cursor, and otherwise nothing is written.
C7_LostRewinds ==
    [][/\ (d.pc = "poll" /\ d'.lost = d.lost + 1) =>
             /\ d'.lost_pending # None
             /\ d'.cur_line = Max0(the(d'.lost_pending) - 1)
             /\ d'.wait_for_event_cnt = 0
       /\ (d.pc = "line" /\ d.lost_pending # None /\ d' # d) =>
             LET cur == Max0(the(d.lost_pending) - 1)
             IN  IF cur < Len(d.lines)
                   THEN \/ wire' = Append(wire, print_line(cur, d.lines[cur + 1]))
                        \/ wire' = wire /\ d'.result = Some(Err("BLE write failed"))
                   ELSE wire' = wire]_vars

C7_Witness ==
    /\ d.pc = "line"
    /\ d.lost_pending = Some(2)
    /\ d.cur_line = 1
    /\ Len(wire) = 7

\* C8: the frames of a session are written in the order hardware-info,
\* handshake-A, handshake-B, density, event(begin), line frames, event(end);
\* handshake-B is on the wire only if Handshake0A was received, density and
\* all later frames only if a Handshake0B with ok was received; nothing
\* precedes event(begin) among the line frames and nothing follows event(end).
C8_WriteOrder ==
    LET n == Len(wire)
    IN  /\ n >= 1 => wire[1] = hardware_info
        /\ n >= 2 => wire[2] = handshake_0a
        /\ n >= 3 => wire[3].frame = "handshake_0b" /\ "Handshake0a" \in d.acked
        /\ n >= 4 => wire[4] = density_frame(d.density) /\ "Handshake0b" \in d.acked
        /\ n >= 5 => wire[5] = print_event(Len(d.lines), FALSE)
        /\ \A k \in 6..n :
              \/ wire[k].frame = "print_line"
              \/ /\ k = n
                 /\ wire[k] = print_event(Len(d.lines), TRUE)
                 /\ d.pc \in {"disconnect", "returned"}

C8_Witness ==
    /\ Len(d.lines) = 2
    /\ Len(wire) = 8
    /\ wire[8] = print_event(2, TRUE)
    /\ d.finished

HandshakeTimeout0a == "timeout waiting for handshake 0x5a0a response"
HandshakeTimeout0b == "timeout waiting for handshake 0x5a0b confirmation"
HandshakeRejected == "printer rejected handshake 0x5a0b response"
HandshakeErrors == {HandshakeTimeout0a, HandshakeTimeout0b, HandshakeRejected}

PrintingFrames == {"density", "print_event", "print_line"}

\* C9: a handshake failure ends the session with an error and nothing of the
\* print on the wire. The wait for Handshake0A ends only with that
\* notification or with its timeout error, the wait for Handshake0B only with
\* a Handshake0B or with its timeout error; every other notification leaves
\* the wait as it was. A first Handshake0B with ok=false is the rejection
\* error, and after any of the three errors no density, event or line frame
\* has been written.
C9_HandshakeFatal ==
    /\ d.first_0b = Some(FALSE) =>
          /\ d.pc = "returned"
          /\ d.result = Some(Err(HandshakeRejected))
    /\ d.pc = "wait_handshake_0a" => "Handshake0a" \notin d.acked
    /\ d.pc = "wait_handshake_0b" => d.first_0b = None
    /\ (d.pc = "returned" /\ the(d.result).msg \in HandshakeErrors) =>
          /\ ~the(d.result).ok
          /\ \A k \in 1..Len(wire) : wire[k].frame \notin PrintingFrames
          /\ the(d.result).msg = HandshakeTimeout0a =>
                "Handshake0a" \notin d.acked /\ Len(wire) = 2
          /\ the(d.result).msg = HandshakeTimeout0b =>
                d.first_0b = None /\ Len(wire) = 3
          /\ the(d.result).msg = HandshakeRejected =>
                d.first_0b = Some(FALSE) /\ Len(wire) = 3

C9_Witness ==
    /\ d.pc = "returned"
    /\ d.first_0b = Some(FALSE)
    /\ Len(wire) = 3

\* The record of the session's job, and the session having left the
\* streaming loop because the idle counter passed the limit with no Finished.
SessionJob == jobs[next_id(JobPrefix, 1)]
IdleExhausted ==
    /\ d.pc \in {"write_event_end", "disconnect", "returned"}
    /\ ~d.finished
    /\ d.wait_for_event_cnt > IdleLimit

\* C10 as stated: once recorded, a session that ended with a handshake
\* timeout, a handshake rejection or an exhausted idle window has left its job
\* Failed with an error message.
C10_ProtocolErrorIsFailed ==
    (/\ d.pc = "returned"
     /\ SessionJob.status \in Terminal
     /\ (the(d.result).msg \in HandshakeErrors \/ IdleExhausted))
        => SessionJob.status = Failed /\ SessionJob.error # None

\* C10: once recorded, a session that ended with a handshake timeout or a
\* handshake rejection has left its job Failed with that error's message. A
\* session that exhausted the idle window is not an error: the driver goes on
\* to event(end) and the disconnect, and the job is Done with no error unless
\* that last write or the disconnect fails, in which case it is Failed with
\* the message of that failure.
C10_HandshakeFailsIdleExitSucceeds ==
    (d.pc = "returned" /\ SessionJob.status \in Terminal) =>
        /\ the(d.result).msg \in HandshakeErrors =>
              /\ SessionJob.status = Failed
              /\ SessionJob.error = Some(the(d.result).msg)
        /\ IdleExhausted =>
              IF d.result = Some(OkResult)
                THEN /\ SessionJob.status = Done
                     /\ SessionJob.error = None
                     /\ wire[Len(wire)] = print_event(Len(d.lines), TRUE)
                ELSE /\ SessionJob.status = Failed
                     /\ SessionJob.error \in {Some("BLE write failed"),
                                              Some("failed to disconnect cleanly")}

C10_Witness ==
    /\ d.pc = "returned"
    /\ IdleExhausted
    /\ SessionJob.status = Done

\* C11: the idle counter counts the 500 ms waits made with the cursor at or
\* past the last line; it never passes 51. A turn of the loop that ends with
\* the cursor past the last line waits once more while the counter is at most
\* 50 and leaves the loop, without waiting, once it is 51; so with neither
\* Finished nor Lost the loop ends after the 51st wait.
C11_IdleBound ==
    /\ [](d.wait_for_event_cnt <= IdleLimit + 1)
    /\ [][(d.pc = "line" /\ d'.pc # "returned" /\ d' # d) =>
            IF d'.cur_line < Len(d.lines)
              THEN /\ d'.pc = "poll"
                   /\ d'.wait_for_event_cnt = d.wait_for_event_cnt
            ELSE IF d.wait_for_event_cnt = IdleLimit + 1
              THEN /\ d'.pc = "write_event_end"
                   /\ d'.wait_for_event_cnt = d.wait_for_event_cnt
            ELSE /\ d'.pc = "poll"
                 /\ d'.wait_for_event_cnt = d.wait_for_event_cnt + 1]_vars

C11_Witness ==
    /\ d.pc = "write_event_end"
    /\ ~d.finished
    /\ d.wait_for_event_cnt = IdleLimit + 1
    /\ d.lost = 0

EndFrames == {k \in 1..Len(wire) : wire[k] = Frame("print_event", Len(d.lines), 1)}

\* C12: Finished ends the streaming loop at once, wherever the cursor is: no
\* line frame is written after it. The only frame written afterwards is one
\* event(num_lines, end=true); then comes the disconnect, and the session
\* returns success (an error only if that write or the disconnect fails).
C12_FinishedEnds ==
    /\ [](d.finished => d.pc \in {"write_event_end", "disconnect", "returned"})
    /\ [][d.finished =>
            /\ d'.finished
            /\ \/ wire' = wire
               \/ /\ d.pc = "write_event_end"
                  /\ wire' = Append(wire, Frame("print_event", Len(d.lines), 1))]_vars
    /\ []((d.finished /\ d.pc \in {"disconnect", "returned"}) =>
            IF d.result = Some(Err("BLE write failed"))
              THEN EndFrames = {}
              ELSE /\ EndFrames = {Len(wire)}
                   /\ d.pc = "returned" =>
                        d.result \in {Some(OkResult),
                                      Some(Err("failed to disconnect cleanly"))})

C12_Witness ==
    /\ d.finished
    /\ d.pc = "returned"
    /\ d.result = Some(OkResult)
    /\ d.cur_line < Len(d.lines)
    /\ Len(wire) = 6

---------------------------------------------------------------------------
(* Properties of a direct call (CallSpec) *)

\* C17: print_job called with density > 7 or with no lines returns its
\* validation error at once: it never gets to the adapter, the scan, the
\* connect, the subscription or a write.
C17_ValidateFirst ==
    (d.density > 7 \/ d.lines = <<>>) =>
        /\ d.pc \in {"validate", "returned"}
        /\ ~d.connected
        /\ wire = <<>>
        /\ d.pc = "returned" =>
              d.result = Some(Err(IF d.density > 7
                                    THEN "density must be in range 0..=7"
                                    ELSE "nothing to print: no packed lines provided"))

C17_Witness ==
    /\ d.pc = "returned"
    /\ d.density = 7
    /\ d.lines = <<>>
    /\ d.result = Some(Err("nothing to print: no packed lines provided"))

---------------------------------------------------------------------------
(* More properties of a driver session (DriverSpec) *)

BeginFrames == {k \in 1..Len(wire) : wire[k].frame = "print_event" /\ wire[k].x = 0}

\* C13: a job is printed at most once. print_job is entered only by a worker
\* that has not entered it before, at most one event(begin) frame is ever
\* written for the job, and once the job is Done or Failed nothing is queued,
\* started or written for it again.
C13_NoRetry ==
    /\ [](Cardinality(BeginFrames) <= 1)
    /\ [][(d'.pc = "validate" /\ d.pc # "validate") => d.pc = "idle"]_vars
    /\ [][SessionJob.status \in Terminal =>
            /\ UNCHANGED <<jobs, queue, active, d, wire>>
            /\ w'.pc = "recv"]_vars
    /\ [](SessionJob.status \in Terminal => queue = <<>> /\ active = {})

C13_Witness ==
    /\ SessionJob.status = Failed
    /\ Cardinality(BeginFrames) = 1
    /\ w.pc = "recv"

---------------------------------------------------------------------------
(* Properties of the endpoints (ApiSpec) *)

Waited(i) == h[i].op = "wait_job" /\ h[i].pc = "done"

\* C14: wait_job answers 404 exactly when the poll finds no record for the
\* id, 200 with the record exactly when the poll finds it Done or Failed, and
\* otherwise sleeps or, at the deadline, answers 202 with the record it read,
\* which is Queued or Printing. No 202 carries a terminal record and no 200 a
\* record that is not terminal.
C14_WaitCodes ==
    /\ [](\A i \in Handlers : Waited(i) =>
            /\ h[i].code \in {401, 404, 200, 202}
            /\ h[i].code = 200 => the(h[i].job).status \in Terminal
            /\ h[i].code = 202 => the(h[i].job).status \in {Queued, Printing}
            /\ h[i].code \in {401, 404} => h[i].job = None)
    /\ [][\A i \in Handlers :
            (h[i].pc = "wj_poll" /\ h'[i] # h[i]) =>
                IF h[i].id \notin DOMAIN jobs
                  THEN Waited(i)' /\ h'[i].code = 404
                ELSE IF jobs[h[i].id].status \in Terminal
                  THEN /\ Waited(i)'
                       /\ h'[i].code = 200
                       /\ h'[i].job = Some(jobs[h[i].id])
                ELSE \/ h'[i].pc = "wj_sleep"
                     \/ /\ Waited(i)'
                        /\ h'[i].code = 202
                        /\ h'[i].job = Some(jobs[h[i].id])]_vars

C14_Witness ==
    \E i, k \in Handlers :
        /\ Waited(i) /\ h[i].code = 202 /\ the(h[i].job).status = Printing
        /\ Waited(k) /\ h[k].code = 200 /\ the(h[k].job).status = Failed

StatusQuery(rec) == rec.op \in {"wait_job", "get_job"}

\* C15: no step of wait_job or get_job changes a job record, the channel, the
\* render cache, an id counter or the worker; a job whose wait was answered
\* 202 goes on to its outcome.
C15_QueriesChangeNothing ==
    [][(\E i \in Handlers : h'[i] # h[i] /\ (StatusQuery(h[i]) \/ StatusQuery(h'[i])))
          => UNCHANGED <<jobs, queue, rx_open, renders, render_seq, job_seq,
                         w, active, issued, published>>]_vars

C15_Witness ==
    \E i \in Handlers :
        /\ Waited(i) /\ h[i].code = 202 /\ the(h[i].job).status = Queued
        /\ jobs[h[i].id].status = Done

Chosen(req, artifact) ==
    IF req.address # None THEN req.address
    ELSE IF artifact.address_override # None THEN artifact.address_override
    ELSE default_address

Accepted(req) ==
    /\ (api_token # None => req.token = api_token)
    /\ req.render_id \in DOMAIN renders

\* C16: for a print request that passes the token check and names a stored
\* render, the job's address is the request's if it has one, else the
\* render's override if it has one, else the daemon's default; with none of
\* the three the answer is 400 and no job id is taken, no record made and
\* nothing sent. The address chosen is the one in the job record and in the
\* command.
C16_AddressChain ==
    /\ [][\A i \in Handlers, req \in ApiPrintRequests :
            (queue_print_begin(i, req) /\ Accepted(req)) =>
                IF Chosen(req, renders[req.render_id]) = None
                  THEN /\ h'[i].pc = "done"
                       /\ h'[i].code = 400
                       /\ UNCHANGED <<jobs, job_seq, queue, issued, published>>
                  ELSE /\ h'[i].pc = "qp_alloc"
                       /\ h'[i].address = the(Chosen(req, renders[req.render_id]))]_vars
    /\ [](\A i \in Handlers :
            h[i].pc = "qp_send" => jobs[h[i].id].address = h[i].address)
    /\ [](\A k \in 1..Len(queue) : jobs[queue[k].job_id].address = queue[k].address)
    /\ [](\A i \in Handlers :
            (h[i].op = "queue_print" /\ h[i].code = 400) => h[i].id = None)

C16_Witness ==
    /\ \E i \in Handlers : h[i].op = "queue_print" /\ h[i].code = 400
    /\ \E r \in DOMAIN renders : renders[r].address_override = None
    /\ default_address = None
    /\ jobs = EmptyMap
    /\ job_seq = 1

\* C19: a stored render is never removed or replaced, every job and every
\* command names a stored render, and the worker's lookup never comes back
\* empty: no job fails with 'render not found'.
C19_RenderStays ==
    /\ [][\A r \in DOMAIN renders :
            r \in DOMAIN renders' /\ renders'[r] = renders[r]]_vars
    /\ [](\A j \in DOMAIN jobs :
            /\ jobs[j].render_id \in DOMAIN renders
            /\ jobs[j].error # Some(render_not_found))
    /\ [](\A k \in 1..Len(queue) : queue[k].render_id \in DOMAIN renders)
    /\ [](w.cmd # None => w.cmd.render_id \in DOMAIN renders)
    /\ [](w.result # Some(Err(render_not_found)))

C19_Witness ==
    /\ w.pc = "session"
    /\ w.packed = Some(renders[w.cmd.render_id].packed_lines)
    /\ jobs[w.cmd.job_id].status = Printing

Refused(i, op) ==
    /\ h'[i] = [IdleHandler EXCEPT !.op = op, !.pc = "done", !.code = 401]
    /\ UNCHANGED <<renders, jobs, render_seq, job_seq, queue, issued, published,
                   w, active>>

Mismatch(req) == api_token # None /\ req.token # api_token

\* C20 as stated: with a token configured, each endpoint but /health answers
\* a request whose x-api-token header is missing or differs from the token
\* with 401 and changes nothing; with no token configured nothing is
\* answered 401.
C20_TokenRequired ==
    /\ [][\A i \in Handlers :
            /\ \A req \in ScanRequests :
                  (scan_printers_begin(i, req) /\ Mismatch(req))
                      => Refused(i, "scan_printers")
            /\ \A req \in ApiRenderTextRequests :
                  (render_text_begin(i, req) /\ Mismatch(req))
                      => Refused(i, "render_text")
            /\ \A req \in ApiRenderImageRequests :
                  (render_image_begin(i, req) /\ Mismatch(req))
                      => Refused(i, "render_image")
            /\ \A req \in PreviewRequests :
                  (get_preview(i, req) /\ Mismatch(req))
                      => Refused(i, "get_preview")
            /\ \A req \in ApiPrintRequests :
                  (queue_print_begin(i, req) /\ Mismatch(req))
                      => Refused(i, "queue_print")
            /\ \A req \in JobRequests :
                  /\ (get_job(i, req) /\ Mismatch(req)) => Refused(i, "get_job")
                  /\ (wait_job_begin(i, req) /\ Mismatch(req))
                        => Refused(i, "wait_job")]_vars
    /\ [](api_token = None => \A i \in Handlers : h[i].code # 401)

\* The empty token matched by a request without the header.
C20_Witness ==
    /\ api_token = Some("")
    /\ \E i \in Handlers : h[i].op = "queue_print" /\ h[i].code = 202
    /\ \A i \in Handlers : h[i].code # 401

---------------------------------------------------------------------------
(* Properties of the locks (LockSpec) *)

LocksOf(t) == {g[1] : g \in locks.held[t]}

\* C18: no handler and no worker step holds a guard of the render map and a
\* guard of the job map at the same time (a task holds at most one guard),
\* and no interleaving of readers, writers and the worker gets stuck on the
\* locks: every task that has started its guard scopes finishes them.
C18_OneLockNoDeadlock ==
    /\ [](\A t \in Tasks : Cardinality(locks.held[t]) <= 1)
    /\ \A t \in Tasks : (locks.todo[t] # <<>>) ~> (locks.todo[t] = <<>>)

C18_Witness ==
    /\ Len(locks.waiting) = 2
    /\ locks.held[WorkerTask] = {}
    /\ \E t \in Handlers : locks.held[t] = {<<"jobs", "read">>}
    /\ locks.waiting[1] = <<WorkerTask, "jobs", "write">>
    /\ locks.waiting[2][3] = "read"

---------------------------------------------------------------------------
(* Properties of the render endpoints (RenderSpec) *)

\* C21 as stated: an authorised render request that fails validation
\* (text blank, width_px > 384, undecodable base64 or image data, packed
\* result empty, density > 7) is answered 400, stores nothing and takes no
\* render id.
C21_InvalidIs400 ==
    [][\A i \in Handlers :
         /\ \A req \in RenderTextRequests :
              (/\ render_text_begin(i, req)
               /\ require_auth(api_token, req.token)
               /\ \/ req.text_blank
                  \/ unwrap_or(req.width_px, MAX_DOTS_PER_LINE) > MAX_DOTS_PER_LINE
                  \/ req.packed = <<>>
                  \/ unwrap_or(req.density, 3) > 7)
              => (h'[i].code = 400 /\ render_seq' = render_seq /\ renders' = renders)
         /\ \A req \in RenderImageRequests :
              (/\ render_image_begin(i, req)
               /\ require_auth(api_token, req.token)
               /\ \/ unwrap_or(req.width_px, MAX_DOTS_PER_LINE) > MAX_DOTS_PER_LINE
                  \/ ~req.decoded
                  \/ ~req.loaded
                  \/ req.packed = <<>>
                  \/ unwrap_or(req.density, 3) > 7)
              => (h'[i].code = 400 /\ render_seq' = render_seq /\ renders' = renders)
    ]_vars

\* C21, amended: such a request stores nothing and takes no render id, and it
\* is answered 400, except that a request whose only fault is density > 7 is
\* answered 500 when the PNG encoding, which comes before the density check,
\* fails; the render ids handed out are 1, 2, .. without gaps and each is
\* stored or about to be stored.
C21_RejectedTakesNoId ==
    /\ [][\A i \in Handlers :
            /\ \A req \in RenderTextRequests :
                 (/\ render_text_begin(i, req)
                  /\ require_auth(api_token, req.token)
                  /\ \/ req.text_blank
                     \/ unwrap_or(req.width_px, MAX_DOTS_PER_LINE) > MAX_DOTS_PER_LINE
                     \/ req.packed = <<>>
                     \/ unwrap_or(req.density, 3) > 7)
                 => /\ render_seq' = render_seq /\ renders' = renders
                    /\ h'[i].id = None
                    /\ h'[i].code \in {400, 500}
                    /\ h'[i].code = 500 =>
                         (~req.png /\ ~req.text_blank /\ req.rendered /\ req.packed # <<>>
                          /\ unwrap_or(req.width_px, MAX_DOTS_PER_LINE) <= MAX_DOTS_PER_LINE)
            /\ \A req \in RenderImageRequests :
                 (/\ render_image_begin(i, req)
                  /\ require_auth(api_token, req.token)
                  /\ \/ unwrap_or(req.width_px, MAX_DOTS_PER_LINE) > MAX_DOTS_PER_LINE
                     \/ ~req.decoded
                     \/ ~req.loaded
                     \/ req.packed = <<>>
                     \/ unwrap_or(req.density, 3) > 7)
                 => /\ render_seq' = render_seq /\ renders' = renders
                    /\ h'[i].id = None
                    /\ h'[i].code \in {400, 500}
                    /\ h'[i].code = 500 =>
                         (~req.png /\ req.decoded /\ req.loaded /\ req.packed # <<>>
                          /\ unwrap_or(req.width_px, MAX_DOTS_PER_LINE) \in 1..MAX_DOTS_PER_LINE)
       ]_vars
    /\ [](DOMAIN renders \cup {h[i].id : i \in {k \in Handlers : h[k].pc = "r_insert"}}
            = {next_id(RenderPrefix, n) : n \in 1..(render_seq - 1)})

\* A rejected request and, after it, the first stored render: it is r_1.
C21_Witness ==
    /\ h[1].op \in {"render_text", "render_image"} /\ h[1].code = 400
    /\ DOMAIN renders = {next_id(RenderPrefix, 1)}
    /\ render_seq = 2

---------------------------------------------------------------------------
(* Properties of the pure functions (CodecSpec) *)

Returned(fn) == calc.fn = fn /\ calc.ret # None

\* C22 as stated: parse_notify gives the event named by the first two bytes,
\* with every missing payload byte read as 0 (Lost: the big-endian u16 of
\* bytes 2 and 3), and Other for a short input or another tag.
C22_MissingBytesAreZero ==
    Returned("parse_notify") =>
      LET note == calc.arg
          byte(k) == IF Len(note) > k THEN note[k + 1] ELSE 0
      IN  the(calc.ret) =
            IF Len(note) < 2 \/ byte(0) # 90 THEN [tag |-> "Other"]
            ELSE CASE byte(1) = 2 -> [tag |-> "Status", battery |-> byte(2),
                                      no_paper |-> (byte(3) # 0),
                                      overheat |-> (byte(5) # 0)]
                   [] byte(1) = 5 -> [tag |-> "Lost", line_no |-> 256 * byte(2) + byte(3)]
                   [] byte(1) = 6 -> [tag |-> "Finished"]
                   [] byte(1) = 8 -> [tag |-> "Paused"]
                   [] byte(1) = 10 -> [tag |-> "Handshake0a"]
                   [] byte(1) = 11 -> [tag |-> "Handshake0b", ok |-> (byte(2) = 1)]
                   [] OTHER -> [tag |-> "Other"]

\* C22, amended: as above, except that a Lost notification shorter than 4
\* bytes gives line_no 0 whatever its byte 2 is.
C22_ParseNotify ==
    Returned("parse_notify") =>
      LET note == calc.arg
          byte(k) == IF Len(note) > k THEN note[k + 1] ELSE 0
      IN  the(calc.ret) =
            IF Len(note) < 2 \/ byte(0) # 90 THEN [tag |-> "Other"]
            ELSE CASE byte(1) = 2 -> [tag |-> "Status", battery |-> byte(2),
                                      no_paper |-> (byte(3) # 0),
                                      overheat |-> (byte(5) # 0)]
                   [] byte(1) = 5 ->
                        [tag |-> "Lost",
                         line_no |-> IF Len(note) < 4 THEN 0 ELSE 256 * byte(2) + byte(3)]
                   [] byte(1) = 6 -> [tag |-> "Finished"]
                   [] byte(1) = 8 -> [tag |-> "Paused"]
                   [] byte(1) = 10 -> [tag |-> "Handshake0a"]
                   [] byte(1) = 11 -> [tag |-> "Handshake0b", ok |-> (byte(2) = 1)]
                   [] OTHER -> [tag |-> "Other"]

\* A Lost notification cut after its third byte has been parsed.
C22_Witness ==
    /\ Returned("parse_notify")
    /\ calc.arg = <<90, 5, 1>>
    /\ the(calc.ret) = [tag |-> "Lost", line_no |-> 0]

\* C23: print_event_packet(n, end) is the 6 bytes 5A 04, n as a big-endian
\* u16, end (0 or 1) as a little-endian u16, for every n in 0..65535.
C23_EventPacket ==
    Returned("print_event_packet") =>
      LET n == calc.arg[1]
          end == IF calc.arg[2] THEN 1 ELSE 0
          p == the(calc.ret)
      IN  /\ Len(p) = 6
          /\ \A k \in 1..6 : p[k] \in 0..255
          /\ p[1] = 90 /\ p[2] = 4
          /\ 256 * p[3] + p[4] = n
          /\ p[5] + 256 * p[6] = end
          /\ (n = 300 /\ end = 0) => p = <<90, 4, 1, 44, 0, 0>>
          /\ (n = 300 /\ end = 1) => p = <<90, 4, 1, 44, 1, 0>>

C23_Witness ==
    /\ Returned("print_event_packet")
    /\ calc.arg = <<300, TRUE>>
    /\ the(calc.ret) = <<90, 4, 1, 44, 1, 0>>

\* C24: print_line_packet(line_no, payload) is 100 bytes for every line_no
\* and 96-byte payload: 55, line_no as a big-endian u16, the payload
\* unchanged and in order, 00.
C24_LinePacket ==
    Returned("print_line_packet") =>
      LET line_no == calc.arg[1]
          payload == calc.arg[2]
          p == the(calc.ret)
      IN  /\ Len(payload) = 96
          /\ Len(p) = 100
          /\ p[1] = 85
          /\ p[2] \in 0..255 /\ p[3] \in 0..255 /\ 256 * p[2] + p[3] = line_no
          /\ \A k \in 1..96 : p[3 + k] = payload[k]
          /\ p[100] = 0

C24_Witness ==
    /\ Returned("print_line_packet")
    /\ calc.arg[1] = 300
    /\ calc.arg[2][1] = 85
    /\ Len(the(calc.ret)) = 100
    /\ the(calc.ret)[4] = 85

\* C25 as stated: handshake_0b_packet(address) is 5A 0B and 10 copies of the
\* high byte of crc16_xmodem(00 || MAC), MAC being the address without ':'
\* and '-'; AA:BB:CC:DD:EE:FF gives CRC 0x14B4 and the byte 0x14; an address
\* that is not 12 hex digits after stripping gives an error.
C25_Handshake0bExample ==
    Returned("handshake_0b_packet") =>
      LET mac_hex == SelectSeq(Chars(calc.arg), LAMBDA c : c \notin {":", "-"})
          mac == [k \in 1..6 |-> 16 * hex_value(mac_hex[2 * k - 1]) + hex_value(mac_hex[2 * k])]
          r == the(calc.ret)
      IN  IF Len(mac_hex) = 12 /\ \A k \in 1..12 : hex_value(mac_hex[k]) >= 0
            THEN /\ r.ok
                 /\ r.packet = <<90, 11>>
                      \o [k \in 1..10 |-> (crc16_xmodem(<<0>> \o mac) \div 256) % 256]
                 /\ calc.arg = ADDR_REQ =>
                      (crc16_xmodem(<<0>> \o mac) = 5300 /\ r.packet[3] = 20)
            ELSE ~r.ok

\* C25, amended: the frame is as stated, but AA:BB:CC:DD:EE:FF gives CRC
\* 0x53F5 and the byte 0x53, and the error comes exactly when the stripped
\* address is not 12 characters or one of its six pairs does not parse as a
\* hexadecimal u8, for which a pair "+d" counts as the digit d.
C25_Handshake0b ==
    Returned("handshake_0b_packet") =>
      LET mac_hex == SelectSeq(Chars(calc.arg), LAMBDA c : c \notin {":", "-"})
          digit(c) == IF c = "+" THEN 0 ELSE hex_value(c)
          parses(k) == /\ hex_value(mac_hex[2 * k]) >= 0
                       /\ (mac_hex[2 * k - 1] = "+" \/ hex_value(mac_hex[2 * k - 1]) >= 0)
          mac == [k \in 1..6 |-> 16 * digit(mac_hex[2 * k - 1]) + hex_value(mac_hex[2 * k])]
          r == the(calc.ret)
      IN  IF Len(mac_hex) = 12 /\ \A k \in 1..6 : parses(k)
            THEN /\ r.ok
                 /\ Len(r.packet) = 12
                 /\ r.packet = <<90, 11>>
                      \o [k \in 1..10 |-> (crc16_xmodem(<<0>> \o mac) \div 256) % 256]
                 /\ calc.arg = ADDR_REQ =>
                      (crc16_xmodem(<<0>> \o mac) = 21493 /\ r.packet[3] = 83)
            ELSE ~r.ok

C25_Witness ==
    /\ Returned("handshake_0b_packet")
    /\ calc.arg = ADDR_REQ
    /\ the(calc.ret).ok
    /\ the(calc.ret).packet = <<90, 11, 83, 83, 83, 83, 83, 83, 83, 83, 83, 83>>

RECURSIVE PolyBits(_, _, _)
\* Eight steps of the long division: the bits of one byte, MSB first, are
\* shifted into the remainder, and x^16 + x^12 + x^5 + 1 is subtracted
\* whenever a 1 leaves the top.
PolyBits(rem, byte, n) ==
    IF n = 8 THEN rem
    ELSE LET bit == (byte \div (2 ^ (7 - n))) % 2
             top == rem \div 32768
             shifted == ((rem * 2) % 65536) + bit
             next == IF top = 1 THEN xor(shifted, 4129) ELSE shifted
         IN  IF next \in 0..65535 THEN PolyBits(next, byte, n + 1) ELSE next

RECURSIVE PolyRemainder(_, _, _)
\* CRC-16/XMODEM by its definition: the remainder of the message, taken
\* MSB-first with 16 zero bits appended, divided by x^16 + x^12 + x^5 + 1,
\* starting from 0, nothing reflected, nothing xor-ed at the end.  k counts
\* the bytes of the message and of the two appended zero bytes.
PolyRemainder(rem, data, k) ==
    IF k = Len(data) + 2 THEN rem
    ELSE LET next == PolyBits(rem, IF k < Len(data) THEN data[k + 1] ELSE 0, 0)
         IN  IF next \in 0..65535 THEN PolyRemainder(next, data, k + 1) ELSE next

\* C26: crc16_xmodem is CRC-16/XMODEM for every byte string; on "123456789"
\* it is 0x31C3 and on 00 C0 00 00 00 05 AB it is not zero.
C26_CrcXmodem ==
    Returned("crc16_xmodem") =>
      /\ the(calc.ret) \in 0..65535
      /\ the(calc.ret) = PolyRemainder(0, calc.arg, 0)
      /\ calc.arg = <<49, 50, 51, 52, 53, 54, 55, 56, 57>> => the(calc.ret) = 12739
      /\ calc.arg = <<0, 192, 0, 0, 0, 5, 171>> => the(calc.ret) # 0

C26_Witness ==
    /\ Returned("crc16_xmodem")
    /\ calc.arg = <<49, 50, 51, 52, 53, 54, 55, 56, 57>>
    /\ the(calc.ret) = 12739

---------------------------------------------------------------------------
(* Properties of the packers (CodecSpec) *)

\* The lines are the packing of img as the specification words it: one line
\* of 96 bytes for every two pixel rows, bit 7 - (x mod 8) of byte
\* row * 48 + x / 8 of line k set exactly when pixel (x, 2k + row) exists and
\* is ink, every other bit 0.
PackedAsStated(img, lines, ink) ==
    /\ Len(lines) = (img.height + 1) \div 2
    /\ \A k \in 1..Len(lines) :
         /\ Len(lines[k]) = 96
         /\ \A b \in 0..95 :
              /\ lines[k][b + 1] \in 0..255
              /\ \A bit \in 0..7 :
                   LET x == 8 * (b % 48) + (7 - bit)
                       y == 2 * (k - 1) + (b \div 48)
                   IN  ((lines[k][b + 1] \div (2 ^ bit)) % 2 = 1)
                         <=> (/\ x < img.width
                              /\ y < img.height
                              /\ (IF <<x, y>> \in img.dark THEN img.value ELSE 255) \in ink)

\* C27: without trim, both packers turn an image of height h and width
\* w <= 384 into ceil(h/2) lines of 96 bytes whose bits are exactly the ink
\* pixels (pixel <= threshold for image_to_packed_lines, pixel = 0 for
\* pack_bw_image), the second row being zero when h is odd; one black pixel
\* at (0,0) over a white one gives one line, byte 0 = 0x80, all else zero.
C27_PackedBits ==
    /\ (Returned("image_to_packed_lines") /\ ~calc.arg[3]) =>
         PackedAsStated(calc.arg[1], the(calc.ret), 0..calc.arg[2])
    /\ (Returned("pack_bw_image") /\ ~calc.arg[2]) =>
         PackedAsStated(calc.arg[1], the(calc.ret), {0})
    /\ (/\ \/ Returned("image_to_packed_lines") /\ calc.arg[2] < 255
           \/ Returned("pack_bw_image")
        /\ ~calc.arg[Len(calc.arg)]
        /\ calc.arg[1].height = 2 /\ calc.arg[1].dark = {<<0, 0>>}
        /\ calc.arg[1].value = 0) =>
         the(calc.ret) = <<[b \in 1..96 |-> IF b = 1 THEN 128 ELSE 0]>>

C27_Witness ==
    /\ Returned("image_to_packed_lines")
    /\ calc.arg[1].width = 384 /\ calc.arg[1].height = 3
    /\ calc.arg[1].dark = {<<383, 2>>} /\ calc.arg[1].value = 128
    /\ calc.arg[2] = 180 /\ ~calc.arg[3]
    /\ Len(the(calc.ret)) = 2
    /\ the(calc.ret)[2][48] = 1
    /\ the(calc.ret)[2][96] = 0

\* The image is what unpacking gives: two pixel rows per line, pixel 0 where
\* the bit is set and 255 where it is clear, in the first img.width columns.
UnpacksTo(lines, img) ==
    /\ 2 * Len(lines) = img.height
    /\ \A y \in 0..(img.height - 1) : \A x \in 0..(img.width - 1) :
         LET byte == lines[(y \div 2) + 1][(y % 2) * 48 + (x \div 8) + 1]
             set == (byte \div (2 ^ (7 - (x % 8)))) % 2 = 1
         IN  (IF set THEN 0 ELSE 255) = (IF <<x, y>> \in img.dark THEN img.value ELSE 255)

BlackAndWhiteEven(img) ==
    /\ img.dark # {} => img.value = 0
    /\ img.height % 2 = 0
    /\ img.width <= 384

\* C28 as stated: for every black-and-white image of even height and width
\* <= 384, unpacking the untrimmed output of either packer gives the image.
C28_UnpackPackAnyPacker ==
    /\ (Returned("pack_bw_image") /\ ~calc.arg[2] /\ BlackAndWhiteEven(calc.arg[1])) =>
         UnpacksTo(the(calc.ret), calc.arg[1])
    /\ (Returned("image_to_packed_lines") /\ ~calc.arg[3]
        /\ BlackAndWhiteEven(calc.arg[1])) =>
         UnpacksTo(the(calc.ret), calc.arg[1])

\* C28, amended: it holds for pack_bw_image, and for image_to_packed_lines
\* when the threshold is below 255 (at 255 the white pixels are ink too).
C28_UnpackPack ==
    /\ (Returned("pack_bw_image") /\ ~calc.arg[2] /\ BlackAndWhiteEven(calc.arg[1])) =>
         UnpacksTo(the(calc.ret), calc.arg[1])
    /\ (Returned("image_to_packed_lines") /\ ~calc.arg[3] /\ calc.arg[2] < 255
        /\ BlackAndWhiteEven(calc.arg[1])) =>
         UnpacksTo(the(calc.ret), calc.arg[1])

C28_Witness ==
    /\ Returned("pack_bw_image")
    /\ ~calc.arg[2]
    /\ calc.arg[1].width = 9 /\ calc.arg[1].height = 2
    /\ calc.arg[1].dark = {<<8, 0>>, <<0, 1>>} /\ calc.arg[1].value = 0
    /\ the(calc.ret)[1][2] = 128
    /\ the(calc.ret)[1][49] = 128

IsBlank(line) == \A b \in 1..Len(line) : line[b] = 0

\* r is xs without its leading and its trailing blank lines.
TrimmedOf(xs, r) ==
    /\ \E a \in 0..Len(xs) :
         /\ a + Len(r) <= Len(xs)
         /\ r = SubSeq(xs, a + 1, a + Len(r))
         /\ \A k \in 1..a : IsBlank(xs[k])
         /\ \A k \in (a + Len(r) + 1)..Len(xs) : IsBlank(xs[k])
    /\ r # <<>> => (~IsBlank(r[1]) /\ ~IsBlank(r[Len(r)]))

\* C29: blank trim removes exactly the leading and trailing all-zero lines and
\* keeps what lies between the first and the last non-blank line, interior
\* blank lines included, in order; trim(trim(xs)) = trim(xs); an all-blank
\* or empty sequence trims to the empty one.  Both packers trim this way.
C29_Trim ==
    /\ Returned("trim_blank_lines") =>
         /\ TrimmedOf(calc.arg, the(calc.ret))
         /\ trim_blank_lines(the(calc.ret)) = the(calc.ret)
         /\ (\A k \in 1..Len(calc.arg) : IsBlank(calc.arg[k])) => the(calc.ret) = <<>>
    /\ (Returned("image_to_packed_lines") /\ calc.arg[3]) =>
         TrimmedOf(image_to_packed_lines(calc.arg[1], calc.arg[2], FALSE), the(calc.ret))
    /\ (Returned("pack_bw_image") /\ calc.arg[2]) =>
         TrimmedOf(pack_bw_image(calc.arg[1], FALSE), the(calc.ret))

\* Blank, ink, blank, ink trimmed to ink, blank, ink.
C29_Witness ==
    /\ Returned("trim_blank_lines")
    /\ Len(calc.arg) = 4
    /\ IsBlank(calc.arg[1]) /\ ~IsBlank(calc.arg[2])
    /\ IsBlank(calc.arg[3]) /\ ~IsBlank(calc.arg[4])
    /\ the(calc.ret) = SubSeq(calc.arg, 2, 4)

---------------------------------------------------------------------------
(* Properties of the font fitter (CodecSpec) *)

---------------------------------------------------------------------------
(* Properties of the streaming loop and of the session's end (DriverSpec) *)

\* The line numbers of the line frames written before position k of the wire.
LinesWrittenBefore(k) ==
    {wire[i].n : i \in {j \in 1..(k - 1) : wire[j].frame = "print_line"}}

\* C31: in a session that writes event(end) without having received
\* Finished (it left the loop through the idle window), every line index
\* 0..len-1 was written in a line frame at least once before event(end),
\* whatever line a Lost named.
C31_EveryLineBeforeEnd ==
    \A k \in EndFrames :
        ~d.finished => LinesWrittenBefore(k) = 0..(Len(d.lines) - 1)

\* A Lost naming a line past the last one was honoured before any line was
\* written: the idle window ran out and event(end) follows event(begin).
C31_Witness ==
    /\ EndFrames # {}
    /\ ~d.finished
    /\ d.lost = 1
    /\ Len(d.lines) = 2
    /\ \A k \in 1..Len(wire) : wire[k].frame # "print_line"

InLoop == d.pc \in {"poll", "line"}

\* C32: the streaming loop terminates for every sequence of notifications
\* with finitely many Lost events: a session in the loop leaves it (to
\* event(end), or returning a write error). The bound on Lost is needed: a
\* Lost leaves the session in the loop with the idle counter at 0, and the
\* turn after it returns to the poll unless the write fails, so a Lost at
\* every poll keeps the loop running.
C32_LoopTerminates ==
    /\ InLoop ~> ~InLoop
    /\ [][(d.pc = "poll" /\ d'.lost = d.lost + 1) =>
            d'.pc = "line" /\ d'.wait_for_event_cnt = 0]_vars
    /\ [][(d.pc = "line" /\ d.wait_for_event_cnt = 0 /\ d' # d) =>
            d'.pc \in {"poll", "returned"}]_vars

\* The loop was left through the idle window after a Lost had reset it.
C32_Witness ==
    /\ d.pc = "write_event_end"
    /\ d.lost = 1
    /\ ~d.finished
    /\ d.cur_line = Len(d.lines)
    /\ Len(wire) > 5 + Len(d.lines)

DisconnectFailed == Err("failed to disconnect cleanly")

\* C33: event(end) and the disconnect happen only on the success path. The
\* disconnect is called only right after event(end) was written, and
\* event(end) is on the wire only in a session that went on to the
\* disconnect; a session that failed after the peripheral was connected
\* (services or characteristics, subscription, handshake timeout or
\* rejection, any failed write) has returned its error with no event(end)
\* written and without having called the disconnect.
C33_EndOnlyOnSuccess ==
    /\ [][(d'.pc = "disconnect" /\ d.pc # "disconnect") =>
            /\ d.pc = "write_event_end"
            /\ wire' = Append(wire, print_event(Len(d.lines), TRUE))]_vars
    /\ [][(d.pc = "disconnect" /\ d' # d) =>
            /\ d'.pc = "returned"
            /\ d'.result \in {Some(OkResult), Some(DisconnectFailed)}]_vars
    /\ [][(d'.pc = "returned" /\ d.pc \notin {"returned", "disconnect"}) =>
            /\ ~the(d'.result).ok
            /\ d'.result # Some(DisconnectFailed)]_vars
    /\ [](EndFrames # {} => d.pc \in {"disconnect", "returned"})
    /\ []((d.pc = "returned" /\ d.connected /\ d.result # Some(DisconnectFailed)
           /\ ~the(d.result).ok) => EndFrames = {})

\* A line write failed in the middle of the stream: the session returned the
\* error, connected, with event(begin) and a line on the wire and no
\* event(end).
C33_Witness ==
    /\ d.pc = "returned"
    /\ d.connected
    /\ d.result = Some(Err("BLE write failed"))
    /\ d.cur_line = 1
    /\ Len(wire) = 6
    /\ wire[6].frame = "print_line"
    /\ EndFrames = {}

---------------------------------------------------------------------------
(* Properties of the daemon's tasks side by side (ApiSpec, Spec) *)

\* The handlers whose scan (discover_candidates) is in progress.
Scanning == {i \in Handlers : h[i].pc = "scan"}

\* C34: all use of the BLE radio is serialized: no scan of the scan endpoint
\* is in progress while a driver session is in flight, whichever of the two
\* started first.
C34_RadioSerialized == ~(Scanning # {} /\ active # {})

\* A scan and the session of job j_1 in progress together.
C34_Witness ==
    /\ Scanning # {}
    /\ w.pc = "session"
    /\ active = {next_id(JobPrefix, 1)}
    /\ jobs[next_id(JobPrefix, 1)].status = Printing

\* The job enters Printing in this step; its place among the published
\* commands.
EntersPrinting(j) == jobs[j].status = Queued /\ jobs'[j].status = Printing
PublishedAt(j) == CHOOSE n \in 1..Len(published) : published[n] = j

\* C35 as stated: jobs enter Printing in increasing order of the number in
\* their id: when a job enters Printing, every job that has already left
\* Queued has a smaller number.
C35_PrintingInIdOrder ==
    [][\A j \in DOMAIN jobs :
          EntersPrinting(j) =>
              \A k \in DOMAIN jobs \ {j} : jobs[k].status # Queued => k[2] < j[2]]_vars

\* C35: jobs enter Printing in the order in which their commands were sent
\* to the channel, not in the order of their ids: when a job enters Printing
\* its command was published, and the published jobs that have already left
\* Queued are exactly those published before it. Two concurrent requests can
\* allocate their ids in one order and send in the other.
C35_PrintingInSendOrder ==
    [][\A j \in DOMAIN jobs :
          EntersPrinting(j) =>
              /\ IsPublished(j)
              /\ \A k \in DOMAIN jobs \ {j} :
                    IsPublished(k) =>
                        (jobs[k].status # Queued <=> PublishedAt(k) < PublishedAt(j))]_vars

\* Job 2 was sent first and is done; job 1, allocated before it, prints
\* after it.
C35_Witness ==
    /\ published = <<next_id(JobPrefix, 2), next_id(JobPrefix, 1)>>
    /\ jobs[next_id(JobPrefix, 2)].status = Done
    /\ jobs[next_id(JobPrefix, 1)].status = Printing

\* A job whose record is in the table, whose command was never published and
\* for which no handler is still at the send: the print request was answered
\* 503.
Unpublished(j) ==
    /\ j \in DOMAIN jobs
    /\ ~IsPublished(j)
    /\ \A i \in Handlers : ~(h[i].pc = "qp_send" /\ h[i].id = j)

\* C36: a print request answered 503 (the send found the channel closed)
\* leaves the job record it inserted in the table, Queued and with no error;
\* the job's command is never in the channel nor with the worker, the job
\* never has a session and never leaves Queued, and every wait on it that is
\* answered with the record is answered 202.
C36_RejectedStaysQueued ==
    /\ [][\A i \in Handlers :
            (h[i].pc = "qp_send" /\ h'[i].code = 503) =>
                /\ ~rx_open
                /\ h'[i].id = h[i].id
                /\ UNCHANGED <<jobs, queue, published>>
                /\ ~IsPublished(h[i].id)]_vars
    /\ [][\A j \in DOMAIN jobs : Unpublished(j) => Unpublished(j)']_vars
    /\ [](\A j \in DOMAIN jobs :
            Unpublished(j) =>
                /\ jobs[j].status = Queued
                /\ jobs[j].error = None
                /\ j \notin active
                /\ \A k \in 1..Len(queue) : queue[k].job_id # j
                /\ w.cmd # None => w.cmd.job_id # j
                /\ \A i \in Handlers :
                      (Waited(i) /\ h[i].id = j) => h[i].code = 202)

\* The request for j_1 was answered 503; a wait on j_1 has ended in 202 with
\* the Queued record.
C36_Witness ==
    \E i \in Handlers :
        /\ ~rx_open
        /\ Unpublished(next_id(JobPrefix, 1))
        /\ Waited(i)
        /\ h[i].id = next_id(JobPrefix, 1)
        /\ h[i].code = 202
        /\ the(h[i].job).status = Queued

PrintingJobs == {j \in DOMAIN jobs : jobs[j].status = Printing}

\* C37: in every reachable state at most one job is Printing, and every
\* command waiting in the channel names a job that is in the table with
\* status Queued.
C37_OnePrintingQueuedWait ==
    /\ Cardinality(PrintingJobs) <= 1
    /\ \A k \in 1..Len(queue) :
          /\ queue[k].job_id \in DOMAIN jobs
          /\ jobs[queue[k].job_id].status = Queued

\* One job is printing while the channel is full of commands for two more.
C37_Witness ==
    /\ Cardinality(PrintingJobs) = 1
    /\ Len(queue) = QueueCap
    /\ \A k \in 1..Len(queue) : queue[k].job_id \notin PrintingJobs
    /\ Cardinality({queue[k].job_id : k \in 1..Len(queue)}) = QueueCap

\* A driver session is in flight.
InSession == w.pc = "session" /\ active # {}

\* C38: the worker holds neither lock, and waits for neither, while a driver
\* session is in flight. A handler that asks for a guard during the session
\* with no other handler in its way gets it at once, every handler that has
\* started its guard scopes finishes them even if the session never returns,
\* and the record a handler reads under the read guard of the job table
\* during the session says Printing.
C38_NoGuardInSession ==
    /\ [](InSession =>
            /\ locks.held[WorkerTask] = {}
            /\ ~IsWaiting(WorkerTask)
            /\ \A t \in Handlers, j \in active :
                  Holds(t, "jobs", "read") =>
                      the(get_cloned(jobs, j)).status = Printing)
    /\ [][\A t \in Handlers :
            (/\ InSession
             /\ lock_acquire(t)
             /\ locks.waiting = <<>>
             /\ \A u \in Handlers : locks.held[u] = {})
                => locks'.held[t] # {}]_vars
    /\ \A t \in Handlers :
          (InSession /\ locks.todo[t] # <<>>) ~> (locks.todo[t] = <<>>)

\* During the session of j_1 one handler reads the job table and the other
\* writes the render cache.
C38_Witness ==
    /\ InSession
    /\ jobs[next_id(JobPrefix, 1)].status = Printing
    /\ Holds(1, "jobs", "read")
    /\ Holds(2, "renders", "write")

\* C39: a job's error field is set exactly when its status is Failed. A job
\* becomes Failed only by the worker recording the result of its command, an
\* error whose message is the one stored; that result is what the driver
\* call returned (or the missing-render error), and a Failed record does not
\* change any more.
C39_ErrorIffFailed ==
    /\ [](\A j \in DOMAIN jobs : (jobs[j].error # None) <=> (jobs[j].status = Failed))
    /\ [][\A j \in DOMAIN jobs :
            /\ (jobs[j].status # Failed /\ jobs'[j].status = Failed) =>
                  /\ w.pc = "record"
                  /\ j = w.cmd.job_id
                  /\ ~the(w.result).ok
                  /\ jobs'[j].error = Some(the(w.result).msg)
            /\ jobs[j].status = Failed => jobs'[j] = jobs[j]]_vars
    /\ [][\A result \in SessionResults :
            print_job_returns(result) => w'.result = Some(result)]_vars
    /\ [](w.pc = "record" =>
            \/ the(w.result) \in SessionResults
            \/ the(w.result) = Err(render_not_found))

\* One job failed with the driver's message, one is done with no error, one
\* is printing.
C39_Witness ==
    /\ DOMAIN jobs = {next_id(JobPrefix, n) : n \in 1..3}
    /\ jobs[next_id(JobPrefix, 1)].status = Failed
    /\ jobs[next_id(JobPrefix, 1)].error # None
    /\ Err(the(jobs[next_id(JobPrefix, 1)].error)) \in SessionResults
    /\ jobs[next_id(JobPrefix, 2)].status = Done
    /\ jobs[next_id(JobPrefix, 2)].error = None
    /\ jobs[next_id(JobPrefix, 3)].status = Printing

\* C40: once created, a job record stays in the table and its id, render id,
\* address and density never change. A step of the worker changes at most
\* the status and the error of the one job named by the command it holds; it
\* adds no record and leaves every other record, the render cache and both
\* id counters as they were.
C40_WorkerFrame ==
    [][/\ \A j \in DOMAIN jobs :
             /\ j \in DOMAIN jobs'
             /\ jobs'[j] = [jobs[j] EXCEPT !.status = jobs'[j].status,
                                           !.error = jobs'[j].error]
       /\ WorkerNext =>
             /\ UNCHANGED <<renders, render_seq, job_seq>>
             /\ DOMAIN jobs' = DOMAIN jobs
             /\ \A j \in DOMAIN jobs :
                   jobs'[j] # jobs[j] => (w.cmd # None /\ j = w.cmd.job_id)]_vars

\* The worker has marked and recorded j_1 and marked j_2 while j_3 waits: the
\* three records still carry what they were created with.
C40_Witness ==
    /\ DOMAIN jobs = {next_id(JobPrefix, n) : n \in 1..3}
    /\ jobs[next_id(JobPrefix, 1)].status \in Terminal
    /\ jobs[next_id(JobPrefix, 2)].status = Printing
    /\ jobs[next_id(JobPrefix, 3)].status = Queued
    /\ \A j \in DOMAIN jobs : jobs[j].id = j /\ jobs[j].render_id \in DOMAIN renders
    /\ job_seq = 4
    /\ w.pc = "session"

============================================================================
